---- MODULE Spec2Model ----
(***************************************************************************)
(* Model of the vertical video player widget (asaelkah/vertical-video-     *)
(* player).  The repository holds several drafts of the player; each       *)
(* specification below models one of them together with the code it        *)
(* calls:                                                                  *)
(*   SpecEngine  recommendation/engine.ts (user profile updates)           *)
(*   Spec        player/VerticalPlayer.tsx lines 1-611 (swipe player with  *)
(*               spring settle and session ad-skip ledger) opened from     *)
(*               widget/Widget.tsx                                         *)
(*   SpecFilter  the moments memo of the skip-filtering and of the         *)
(*               seen-filtering draft (lines 36-43 and 629-633)            *)
(*   SpecScroll  player/VerticalPlayer.tsx lines 1363-1998 (scroll-snap    *)
(*               player reporting engagement to the engine)                *)
(*   SpecHistory recordWatch on a stored history near HISTORY_LIMIT        *)
(*   SpecRank    calculateScore and rankVideos of engine.ts                *)
(*   SpecLedger  the seen ledger of unnamed/part_006 as a stored array     *)
(*   SpecStorage seen.ts and engine.ts on a localStorage that fails        *)
(*   SpecCache   player/useVideoCache.ts, both drafts (SpecCacheFair: with *)
(*               every started fetch settling)                             *)
(*   SpecSlots   unnamed/part_005 (scroll player mounting VideoItems)      *)
(*   SpecGesture the touch gesture of the swipe player in pixels and       *)
(*               milliseconds                                              *)
(*   SpecTurns   the engagement events of the scroll player as turns of    *)
(*               the event loop                                            *)
(*   SpecBlobs   the Cache API draft of useVideoCache.ts with the blob     *)
(*               URLs it creates and revokes                               *)
(*   SpecPlay    VideoItem of unnamed/part_005: commits, play() promises   *)
(*               and the timers of playWithSound                           *)
(*   SpecToggle  SpecPlay with playback time and without navigation        *)
(*   SpecAdvance the swipe player from an open session, every enabled      *)
(*               step eventually taken                                     *)
(*   SpecRetry   player/renderers/VideoRenderer.tsx (play attempts)        *)
(*   SpecHosted  YouTubeRenderer of unnamed/part_007 (ended messages)      *)
(* Weights and engagement scores are fixed-point numbers in thousandths    *)
(* (0.15 is 150); watch fractions are whole percents.  A moment's          *)
(* content_id is its position in payload.moments, counted from 0 as the    *)
(* code counts indexes; moments are videos and ads.  In the swipe player   *)
(* mute, share and tap-to-pause are left out: they touch neither the       *)
(* index, the playlist nor the ledgers.                                    *)
(***************************************************************************)
EXTENDS Integers, Sequences, FiniteSets, TLC

VARIABLES
    \* recommendation/engine.ts
    interestVector,   \* UserProfile.interestVector as stored: tag -> weight
    watchHistory,     \* UserProfile.watchHistory as stored, most recent first
    calls,            \* engine calls made so far (bounded by MaxCalls)
    videos,           \* the videos handed to rankVideos
    scored,           \* rankVideos' scored array, sorted (empty: not run)
    \* localStorage, as seen.ts and engine.ts use it
    ledger,           \* the array stored under mmvp_seen_content_ids_v1
    ledgerRaw,        \* what is stored under that key, by kind
    profileRaw,       \* the value stored under mmvp_user_profile, by kind
    failing,          \* the storage calls that throw: none, getItem, setItem
    thrown,           \* the last call raised an error to its caller
    \* player/useVideoCache.ts
    draft,            \* the draft of the file in use: cacheApi or blob
    blobUrlCache,     \* keys of blobUrlCache
    cacheApi,         \* the requests stored in the Cache API cache
    inProgress,       \* cachingInProgress / fetchingInProgress
    pendingCallbacks, \* pendingCallbacks: locator -> callers that wait
    tasks,            \* the calls made: locator, position, value returned
    fetchLog,         \* network fetches started so far, by locator
    blobUrlOf,        \* blobUrlCache's values: key -> blob URL (SpecBlobs)
    objectUrls,       \* blob URLs created and not revoked (SpecBlobs)
    \* unnamed/part_005 (scroll player with VideoItem)
    handles,          \* the sections whose video element is mounted
    closureIndex,     \* currentIndex as the observer's closure holds it
    dataLayer,        \* what the last step pushed onto window.dataLayer
    \* player/VerticalPlayer.tsx lines 1-611, the touch gesture in numbers
    now,              \* Date.now(), in ms from the start of the behaviour
    touchState,       \* touchState.current: positions, time, velocityHistory
    \* the event loop running the engine's profile updates
    running,          \* the engagement event whose turn is running, 0: none
    jobs,             \* the engagement events: position, inputs, profile read
    \* unnamed/part_005, VideoItem: the playback of the video elements
    muted,            \* muted state of the player: the mute the user wants
    hasUserInteracted,    \* module-level flag set by markUserInteraction
    media,            \* section -> its video element: playing, muted,
                      \* currentTime
    playAttemptRef,   \* section -> playAttemptRef.current of its VideoItem
    promises,         \* the play() promises not settled yet
    timers,           \* the setTimeout callbacks of playWithSound not run yet
    commit,           \* the React commit under way: sections left, old index
    \* player/renderers/VideoRenderer.tsx and unnamed/part_007
    videoRenderer,    \* a VideoRenderer: props, playAttempts, what is pending
    youTube,          \* the YouTubeRenderers: active clip, hasEndedRef, calls
    \* the page
    payload,          \* payload.moments: the kind of each moment
    mobile,           \* isMobile(): the pointer is coarse
    skippedAdsInSession,  \* module-level Set of skipped ad ids
    seen,             \* the seen ledger in localStorage
    \* widget/Widget.tsx
    open,             \* Widget's open state: the player is mounted
    \* player/VerticalPlayer.tsx (every draft)
    moments,          \* the effective playlist (useMemo on mount): ids
    paused,           \* paused state
    \* player/VerticalPlayer.tsx lines 1-611 (swipe player)
    index,            \* index state
    offset,           \* offset state, by sign: -1 up, 0 rest, 1 down (in
                      \* SpecGesture: in hundredths of a pixel)
    isAnimating,      \* isAnimating state
    isDragging,       \* touchState.current.isDragging
    raf,              \* the pending animation frame request (rafId)
    wheelTimeout,     \* wheelTimeout.current is set
    \* player/VerticalPlayer.tsx lines 1363-1998 (scroll player)
    currentIndex,     \* currentIndex state
    visible,          \* the section the scroll container shows
    reported,         \* the section the observer reported last, -1: none
    lastWatched,      \* lastWatchedRef.current
    exiting,          \* exiting state
    exitTimers,       \* pending setTimeout(onClose, 300) timers
    ev                \* the handler that ran last

rvars == <<videos, scored>>
lsvars == <<ledger, ledgerRaw, profileRaw, failing, thrown>>
chvars == <<draft, blobUrlCache, cacheApi, inProgress, pendingCallbacks,
            tasks, fetchLog, blobUrlOf, objectUrls>>
slvars == <<handles, closureIndex, dataLayer>>
gvars == <<now, touchState>>
tvars == <<running, jobs>>
mvars == <<muted, hasUserInteracted, media, playAttemptRef, promises, timers,
           commit>>
rdvars == <<videoRenderer, youTube>>
xvars == <<chvars, slvars, gvars, tvars, mvars, rdvars>>
svars == <<rvars, lsvars, xvars>>
evars == <<interestVector, watchHistory, calls, svars>>
pagevars == <<payload, mobile, skippedAdsInSession, seen>>
cvars == <<currentIndex, visible, reported, lastWatched, exiting, exitTimers>>
pvars == <<open, moments, index, paused, offset, isAnimating,
           isDragging, raf, wheelTimeout, cvars>>
vars == <<evars, pagevars, pvars, ev>>

\* What ev records of the handler that ran last: whether it was an open, a
\* Skip Ad, a page load or another handler, and the navigation it asked for.
Ev(kind, advance) == [kind |-> kind, advance |-> advance]

\* lastWatchedRef.current is null.
NoWatch == [index |-> -1, progress |-> 0]

\* touchState.current as useRef creates it (isDragging is a variable of
\* its own; velocity only seeds the spring, startTime and rafId's number
\* are not read, didSwipe only feeds handleTap); moves counts the
\* touchmove events of the gesture.
NoTouch == [startY |-> 0, lastY |-> 0, lastTime |-> 0,
            velocityHistory |-> <<>>, moves |-> 0]

\* No animation frame requested.
NoRaf == [kind |-> "none", value |-> 0, onComplete |-> "none", index |-> 0]

Max(a, b) == IF a >= b THEN a ELSE b
Min(a, b) == IF a <= b THEN a ELSE b

(***************************************************************************)
(* recommendation/engine.ts                                                *)
(***************************************************************************)
LEARNING_RATE == 150
HISTORY_LIMIT == 50
NEUTRAL_WEIGHT == 500
MIN_WEIGHT == 10
MAX_WEIGHT == 5000

\* The tags the playlists of the model carry.
Tags == {"nba", "nfl"}

\* Tag lists as a moment carries them: no tag twice, any order.
TagLists ==
    {<<>>, <<"nba">>, <<"nfl">>, <<"nba", "nfl">>, <<"nfl", "nba">>}

\* Watch fractions handed to getEngagementScore, in percent: one in every
\* bracket of the mapping, and its thresholds.
Percentages == {10, 20, 50, 90, 95}

\* Engine calls explored from each stored profile.
MaxCalls == 2

\* Weights a stored profile can hold from earlier sessions, next to each
\* cap and in the middle.  Every update moves a weight by a multiple of 15
\* from 500: 20 = 500 - 10*45 - 30, and 4970 = 500 + 30*150 - 30.
StoredWeights == {20, NEUTRAL_WEIGHT, 4970}

\* The interest vectors a session can start from.
StoredVectors ==
    UNION {[D -> StoredWeights] : D \in SUBSET Tags}

\* getUserProfile's default profile: nothing stored yet.
EmptyVector == [t \in {} |-> 0]

getEngagementScore(watchPercentage, wasSkipped) ==
    IF wasSkipped
    THEN (IF watchPercentage < 20 THEN -300 ELSE 0)
    ELSE IF watchPercentage >= 90 THEN 1000
    ELSE IF watchPercentage >= 50 THEN 500
    ELSE IF watchPercentage >= 20 THEN 100
    ELSE -200

\* The default of a tag not yet stored taken as 0 instead of 0.5.
CurrentWeight_ZeroDefault(iv, tag) == IF tag \in DOMAIN iv THEN iv[tag] ELSE 0

\* profile.interestVector[tag] ?? 0.5
CurrentWeight(iv, tag) == IF tag \in DOMAIN iv THEN iv[tag] ELSE NEUTRAL_WEIGHT

\* The cap with its upper bound left out.
CapWeight_NoUpper(newWeight) == Max(MIN_WEIGHT, newWeight)

\* Math.max(0.01, Math.min(newWeight, 5.0))
CapWeight(newWeight) == Max(MIN_WEIGHT, Min(newWeight, MAX_WEIGHT))

\* One iteration of updateUserInterest's loop.
NewWeight(iv, tag, engagementScore) ==
    CapWeight(CurrentWeight(iv, tag) + (LEARNING_RATE * engagementScore) \div 1000)

RECURSIVE UpdateWeights(_, _, _)
UpdateWeights(iv, tags, engagementScore) ==
    IF tags = <<>> THEN iv
    ELSE LET tag == Head(tags)
             next == [t \in DOMAIN iv \cup {tag} |->
                        IF t = tag THEN NewWeight(iv, tag, engagementScore)
                        ELSE iv[t]]
         IN  UpdateWeights(next, Tail(tags), engagementScore)

\* updateUserInterest(tags, engagementScore): load, update every tag, save.
updateUserInterest(tags, engagementScore) ==
    interestVector' = UpdateWeights(interestVector, tags, engagementScore)

\* A caller computes the score with getEngagementScore and records it.
RecordEngagement(tags, p, wasSkipped) ==
    /\ calls < MaxCalls
    /\ updateUserInterest(tags, getEngagementScore(p, wasSkipped))
    /\ calls' = calls + 1
    /\ ev' = Ev("updateUserInterest", "none")
    /\ UNCHANGED <<watchHistory, svars, pagevars, pvars>>

\* resetUserProfile(): the stored profile is removed.
ResetUserProfile ==
    /\ calls < MaxCalls
    /\ interestVector' = EmptyVector
    /\ watchHistory' = <<>>
    /\ calls' = calls + 1
    /\ ev' = Ev("resetUserProfile", "none")
    /\ UNCHANGED <<svars, pagevars, pvars>>

\* rankVideos has nothing to rank.
NoRanker ==
    /\ videos = <<>>
    /\ scored = <<>>

\* localStorage works and holds what the profile variables say; the seen
\* ledger as an array is not looked at.
NoStorage ==
    /\ ledger = <<>>
    /\ ledgerRaw = "array"
    /\ profileRaw = "profile"
    /\ failing = "none"
    /\ thrown = FALSE

\* useVideoCache.ts is not in use.
NoCache ==
    /\ draft = "blob"
    /\ blobUrlCache = {}
    /\ cacheApi = {}
    /\ inProgress = {}
    /\ pendingCallbacks = <<>>
    /\ tasks = <<>>
    /\ fetchLog = <<>>
    /\ blobUrlOf = <<>>
    /\ objectUrls = {}

\* No VideoItem is rendered.
NoSlots ==
    /\ handles = {}
    /\ closureIndex = 0
    /\ dataLayer = <<>>

\* No touch gesture is followed in numbers.
NoGesture ==
    /\ now = 0
    /\ touchState = NoTouch

\* No engagement event is followed through the event loop.
NoTurns ==
    /\ running = 0
    /\ jobs = <<>>

\* No React commit is under way.
NoCommit == [todo |-> <<>>, from |-> -1, all |-> FALSE]

\* No video element is followed through its playback.
NoMedia ==
    /\ muted = FALSE
    /\ hasUserInteracted = FALSE
    /\ media = <<>>
    /\ playAttemptRef = <<>>
    /\ promises = {}
    /\ timers = {}
    /\ commit = NoCommit

\* No renderer component is followed.
NoRenderers ==
    /\ videoRenderer = <<>>
    /\ youTube = <<>>

\* The modules the specifications above the cache do not call are idle.
NoOthers ==
    /\ NoCache
    /\ NoSlots
    /\ NoGesture
    /\ NoTurns
    /\ NoMedia
    /\ NoRenderers

\* The modules the players do not call are idle.
OthersIdle ==
    /\ NoRanker
    /\ NoStorage
    /\ NoOthers

\* No page: the engine is driven on its own.
NoPage ==
    /\ payload = <<>>
    /\ mobile = FALSE
    /\ skippedAdsInSession = {}
    /\ seen = {}

\* No scroll player mounted.
NoScrollPlayer ==
    /\ currentIndex = 0
    /\ visible = 0
    /\ reported = -1
    /\ lastWatched = NoWatch
    /\ exiting = FALSE
    /\ exitTimers = 0

\* No swipe player mounted.
NoPlayer ==
    /\ open = FALSE
    /\ moments = <<>>
    /\ index = 0
    /\ paused = FALSE
    /\ offset = 0
    /\ isAnimating = FALSE
    /\ isDragging = FALSE
    /\ raf = NoRaf
    /\ wheelTimeout = FALSE

EngineInit ==
    /\ interestVector \in StoredVectors
    /\ watchHistory = <<>>
    /\ calls = 0
    /\ NoPage
    /\ NoPlayer
    /\ NoScrollPlayer
    /\ OthersIdle
    /\ ev = Ev("init", "none")

EngineNext ==
    \/ \E tags \in TagLists, p \in Percentages, wasSkipped \in BOOLEAN :
           RecordEngagement(tags, p, wasSkipped)
    \/ ResetUserProfile

SpecEngine == EngineInit /\ [][EngineNext]_vars

(***************************************************************************)
(* Claims about the engine                                                 *)
(***************************************************************************)

C10_Listed(tags) == {tags[i] : i \in DOMAIN tags}

C10_Prior(t) == IF t \in DOMAIN interestVector THEN interestVector[t] ELSE 500

C10_Clamp(w) == IF w < 10 THEN 10 ELSE IF w > 5000 THEN 5000 ELSE w

MaxMoments == 3

Kinds == {"video", "ad"}

\* payload.moments by kind, one to MaxMoments moments.
Payloads == UNION {[1..n -> Kinds] : n \in 1..MaxMoments}

\* The content_ids of a payload, in order.
Ids(p) == [i \in 1..Len(p) |-> i - 1]

\* moment.type of the moment with this content_id.
TypeOf(id) == payload[id + 1]

\* The skip filter that keeps every moment.
FilterSkippedAds_KeepAll(p, skippedAds) == Ids(p)

\* The moments memo: skipped ads are filtered out, and the unfiltered list
\* is used when nothing would be left.
FilterSkippedAds(p, skippedAds) ==
    LET Keep(id) == ~(p[id + 1] = "ad" /\ id \in skippedAds)
        filtered == SelectSeq(Ids(p), Keep)
    IN  IF Len(filtered) > 0 THEN filtered ELSE Ids(p)

total == Len(moments)
hasPrev == index > 0
hasNext == index < total - 1
InRange(i) == i >= 0 /\ i < total

\* The player is mounted and rendered: with index outside moments, current
\* is undefined and the render throws at hasVideo(current).
Mounted == open /\ InRange(index)

\* moments[index]; only read where InRange(index).
current == moments[index + 1]

\* The "Track moment" effect for the index i just set: markSeen(current).
TrackMoment(i) ==
    seen' = IF InRange(i) THEN seen \cup {moments[i + 1]} ELSE seen

\* onClose as Widget passes it: setOpen(false).
onClose == open' = FALSE

\* goNext as created in the render where index was idx; setIndex(i => i + 1)
\* applies to the index of the moment it runs.
goNext(idx) ==
    IF idx < total - 1
    THEN /\ index' = index + 1
         /\ paused' = FALSE
         /\ TrackMoment(index + 1)
         /\ open' = open
    ELSE /\ onClose
         /\ UNCHANGED <<index, paused, seen>>

\* goPrev as created in the render where index was idx.
goPrev(idx) ==
    IF idx > 0
    THEN /\ index' = index - 1
         /\ paused' = FALSE
         /\ TrackMoment(index - 1)
         /\ open' = open
    ELSE UNCHANGED <<index, paused, seen, open>>

\* The gesture state a handler leaves behind.  When the handler closed the
\* player, the component unmounts: its cleanup cancels the pending frame
\* and its state and refs are dropped.
Gesture(dragging, animating, off, frame, wheel) ==
    IF open'
    THEN /\ isDragging' = dragging
         /\ isAnimating' = animating
         /\ offset' = off
         /\ raf' = frame
         /\ wheelTimeout' = wheel
    ELSE /\ isDragging' = FALSE
         /\ isAnimating' = FALSE
         /\ offset' = 0
         /\ raf' = NoRaf
         /\ wheelTimeout' = FALSE

KeepGesture == Gesture(isDragging, isAnimating, offset, raf, wheelTimeout)

\* Widget.openPlayer(originalIndex) from a carousel card (ads have none):
\* selectedIndex is set and VerticalPlayer mounts with it as initialIndex.
openPlayer(originalIndex) ==
    /\ ~open
    /\ originalIndex \in 0..(Len(payload) - 1)
    /\ TypeOf(originalIndex) # "ad"
    /\ open' = TRUE
    /\ moments' = FilterSkippedAds(payload, skippedAdsInSession)
    /\ index' = originalIndex
    /\ paused' = FALSE
    /\ seen' = IF originalIndex < Len(moments')
               THEN seen \cup {moments'[originalIndex + 1]} ELSE seen
    /\ Gesture(FALSE, FALSE, 0, NoRaf, FALSE)
    /\ ev' = Ev("openPlayer", "none")
    /\ UNCHANGED <<evars, cvars, payload, mobile, skippedAdsInSession>>

\* handleTouchStart: a running settle animation is cancelled.
handleTouchStart ==
    /\ Mounted
    /\ UNCHANGED <<evars, cvars, pagevars, open, moments, index, paused>>
    /\ Gesture(TRUE, FALSE, 0, NoRaf, wheelTimeout)
    /\ ev' = Ev("handler", "none")

\* handleTouchMove with the finger dy above (-1) or below (1) its start: the
\* new offset is set in the next animation frame.
handleTouchMove(dy) ==
    /\ Mounted
    /\ UNCHANGED <<evars, cvars, pagevars, open, moments, index, paused>>
    /\ isDragging
    /\ Gesture(isDragging, isAnimating, offset,
               [kind |-> "setOffset", value |-> dy, onComplete |-> "none",
                index |-> 0],
               wheelTimeout)
    /\ ev' = Ev("handler", "none")

\* The animation frame requested by handleTouchMove: setOffset(newOffset).
OffsetFrame ==
    /\ Mounted
    /\ UNCHANGED <<evars, cvars, pagevars, open, moments, index, paused>>
    /\ raf.kind = "setOffset"
    /\ Gesture(isDragging, isAnimating, raf.value, NoRaf, wheelTimeout)
    /\ ev' = Ev("handler", "none")

\* What handleTouchEnd hands to animateToPosition as onComplete; triggered
\* is velocityTriggered || distanceTriggered.
SettleCallback(triggered) ==
    IF offset < 0 /\ triggered THEN (IF hasNext THEN "goNext" ELSE "onClose")
    ELSE IF offset > 0 /\ triggered THEN (IF hasPrev THEN "goPrev" ELSE "none")
    ELSE "none"

\* handleTouchEnd: the frame pending from handleTouchMove is cancelled and
\* the spring animation starts; its onComplete holds the goNext or goPrev of
\* this render, that is, of this index.
handleTouchEnd(triggered) ==
    /\ Mounted
    /\ UNCHANGED <<evars, cvars, pagevars, open, moments, index, paused>>
    /\ isDragging
    /\ Gesture(FALSE, TRUE, offset,
               [kind |-> "animate", value |-> 0,
                onComplete |-> SettleCallback(triggered), index |-> index],
               wheelTimeout)
    /\ ev' = Ev("handler", "none")

\* The frame of animateToPosition in which the spring is settled: the offset
\* snaps to the target (and to 0 before goNext or goPrev), isAnimating is
\* cleared and onComplete runs.
Settle ==
    /\ Mounted
    /\ raf.kind = "animate"
    /\ CASE raf.onComplete = "goNext" ->
                goNext(raf.index) /\ ev' = Ev("handler", "next")
         [] raf.onComplete = "goPrev" ->
                goPrev(raf.index) /\ ev' = Ev("handler", "prev")
         [] raf.onComplete = "onClose" ->
                /\ onClose
                /\ ev' = Ev("handler", "none")
                /\ UNCHANGED <<index, paused, seen>>
         [] OTHER ->
                /\ ev' = Ev("handler", "none")
                /\ UNCHANGED <<index, paused, seen, open>>
    /\ Gesture(isDragging, FALSE, 0, NoRaf, wheelTimeout)
    /\ UNCHANGED <<evars, cvars, payload, mobile, skippedAdsInSession, moments>>

Keys == {"ArrowDown", "ArrowUp", " ", "Escape"}

\* onKey of the keydown listener, which every render re-creates.
onKey(key) ==
    /\ Mounted
    /\ CASE key = "ArrowDown" -> goNext(index) /\ ev' = Ev("handler", "next")
         [] key = "ArrowUp" -> goPrev(index) /\ ev' = Ev("handler", "prev")
         [] key = " " ->
                /\ paused' = ~paused
                /\ ev' = Ev("handler", "none")
                /\ UNCHANGED <<index, seen, open>>
         [] key = "Escape" ->
                /\ onClose
                /\ ev' = Ev("handler", "none")
                /\ UNCHANGED <<index, paused, seen>>
    /\ KeepGesture
    /\ UNCHANGED <<evars, cvars, payload, mobile, skippedAdsInSession, moments>>

\* Wheel movements: down, too small to count, up.
WheelDeltas == {-100, 10, 100}

\* A wheel handler that never finds its timer set.
WheelDebounced_Never == FALSE

\* if (wheelTimeout.current) return: the timer of the last wheel
\* navigation has not fired yet.
WheelDebounced == wheelTimeout

\* handleWheel: ignored while the wheel timer runs or a settle animates.
handleWheel(deltaY) ==
    /\ Mounted
    /\ ~(WheelDebounced \/ isAnimating)
    /\ IF deltaY > 20 \/ deltaY < -20
       THEN /\ IF deltaY > 0
               THEN goNext(index) /\ ev' = Ev("handler", "next")
               ELSE goPrev(index) /\ ev' = Ev("handler", "prev")
            /\ Gesture(isDragging, isAnimating, offset, raf, TRUE)
       ELSE /\ ev' = Ev("handler", "none")
            /\ UNCHANGED <<index, paused, seen, open>>
            /\ KeepGesture
    /\ UNCHANGED <<evars, cvars, payload, mobile, skippedAdsInSession, moments>>

\* The 400 ms timer of handleWheel.
WheelTimeoutFires ==
    /\ Mounted
    /\ UNCHANGED <<evars, cvars, pagevars, open, moments, index, paused>>
    /\ wheelTimeout
    /\ Gesture(isDragging, isAnimating, offset, raf, FALSE)
    /\ ev' = Ev("handler", "none")

\* onEnded of the current video: goNext of this render.
onEnded ==
    /\ Mounted
    /\ goNext(index)
    /\ KeepGesture
    /\ ev' = Ev("handler", "next")
    /\ UNCHANGED <<evars, cvars, payload, mobile, skippedAdsInSession, moments>>

\* The Skip Ad button is rendered on any current moment.
SkipButtonShown_AnyKind == Mounted

\* i === index && moment.type === "ad": the Skip Ad button is rendered.
SkipButtonShown == Mounted /\ TypeOf(current) = "ad"

\* Skip Ad: markAdSkipped(moment.content_id), then goNext().
SkipAd ==
    /\ SkipButtonShown
    /\ skippedAdsInSession' = skippedAdsInSession \cup {current}
    /\ goNext(index)
    /\ KeepGesture
    /\ ev' = Ev("skipAd", "next")
    /\ UNCHANGED <<evars, cvars, payload, mobile, moments>>

\* The desktop arrow buttons.
ArrowNext ==
    /\ Mounted
    /\ ~mobile /\ hasNext
    /\ goNext(index)
    /\ KeepGesture
    /\ ev' = Ev("handler", "next")
    /\ UNCHANGED <<evars, cvars, payload, mobile, skippedAdsInSession, moments>>

ArrowPrev ==
    /\ Mounted
    /\ ~mobile /\ hasPrev
    /\ goPrev(index)
    /\ KeepGesture
    /\ ev' = Ev("handler", "prev")
    /\ UNCHANGED <<evars, cvars, payload, mobile, skippedAdsInSession, moments>>

\* The close button: onClose().
CloseButton ==
    /\ Mounted
    /\ onClose
    /\ KeepGesture
    /\ ev' = Ev("handler", "none")
    /\ UNCHANGED <<evars, cvars, pagevars, moments, index, paused>>

\* The page is loaded again: module state and component state start over,
\* localStorage stays.
Reload ==
    /\ ev.kind # "init"
    /\ skippedAdsInSession' = {}
    /\ open' = FALSE
    /\ moments' = <<>>
    /\ index' = 0
    /\ paused' = FALSE
    /\ Gesture(FALSE, FALSE, 0, NoRaf, FALSE)
    /\ ev' = Ev("reload", "none")
    /\ UNCHANGED <<evars, cvars, payload, mobile, seen>>

Init ==
    /\ interestVector = EmptyVector
    /\ watchHistory = <<>>
    /\ calls = 0
    /\ payload \in Payloads
    /\ mobile \in BOOLEAN
    /\ skippedAdsInSession = {}
    /\ seen = {}
    /\ NoPlayer
    /\ NoScrollPlayer
    /\ OthersIdle
    /\ ev = Ev("init", "none")

Next ==
    \/ \E originalIndex \in 0..(MaxMoments - 1) : openPlayer(originalIndex)
    \/ handleTouchStart
    \/ \E dy \in {-1, 1} : handleTouchMove(dy)
    \/ OffsetFrame
    \/ \E triggered \in BOOLEAN : handleTouchEnd(triggered)
    \/ Settle
    \/ \E key \in Keys : onKey(key)
    \/ \E deltaY \in WheelDeltas : handleWheel(deltaY)
    \/ WheelTimeoutFires
    \/ onEnded
    \/ SkipAd
    \/ ArrowNext
    \/ ArrowPrev
    \/ CloseButton
    \/ Reload

Spec == Init /\ [][Next]_vars

(***************************************************************************)
(* Claims about the swipe player                                           *)
(***************************************************************************)

\* C1: in every state of an open player session the index is a valid index
\* into the effective playlist, 0 <= index < moments.length, for every start
\* index the player is opened with and after any interleaving of next/prev
\* navigation (settle completion, key, wheel, arrow button), Skip Ad and
\* media-ended events.
C1_IndexValid ==
    open => (index >= 0 /\ index < Len(moments))

\* C3: a prev request at index 0 changes neither index, pause flag nor the
\* open status; a next request at the last index closes the player and
\* leaves the index alone; at any other index a request moves the index by
\* exactly +1 (next) or -1 (prev).
C3_AdvanceAtTheEnds ==
    [][(open /\ index >= 0 /\ index < Len(moments)) =>
          /\ (ev'.advance = "prev" /\ index = 0) =>
                 (index' = index /\ paused' = paused /\ open' = open)
          /\ (ev'.advance = "prev" /\ index > 0) => index' = index - 1
          /\ (ev'.advance = "next" /\ index = Len(moments) - 1) =>
                 (~open' /\ index' = index)
          /\ (ev'.advance = "next" /\ index < Len(moments) - 1) =>
                 index' = index + 1
      ]_vars

\* C5: Skip Ad can only be triggered while the current moment is an ad; it
\* adds that ad's id to the skipped set and then does what a next request
\* does (index + 1, or close when the ad is the last moment); nothing else
\* adds to the skipped set, and no id of a non-ad moment is ever in it.
C5_SkipOnlyAds ==
    [][/\ \A id \in skippedAdsInSession' : payload[id + 1] = "ad"
       /\ (skippedAdsInSession' # skippedAdsInSession) =>
              ev'.kind \in {"skipAd", "reload"}
       /\ (ev'.kind = "skipAd") =>
              /\ open /\ index >= 0 /\ index < Len(moments)
              /\ payload[moments[index + 1] + 1] = "ad"
              /\ skippedAdsInSession' =
                     skippedAdsInSession \cup {moments[index + 1]}
              /\ IF index < Len(moments) - 1
                 THEN index' = index + 1 /\ open'
                 ELSE index' = index /\ ~open'
      ]_vars

\* C5 witness: the ad at position 1 was skipped and the player moved on to
\* index 2.
C5_Witness ==
    /\ ev.kind = "skipAd"
    /\ open
    /\ index = 2
    /\ skippedAdsInSession = {1}

\* C6: once an ad is in the skipped set, every later open in the same page
\* session builds a playlist without it, provided some other moment remains.
C6_SkippedAdExcluded ==
    (ev.kind = "openPlayer") =>
        \A id \in skippedAdsInSession :
            (\E m \in 1..Len(payload) :
                 ~(payload[m] = "ad" /\ (m - 1) \in skippedAdsInSession))
            => \A k \in 1..Len(moments) : moments[k] # id

\* C6 witness: the player was opened again after an ad was skipped, and the
\* playlist it built is shorter than the payload.
C6_Witness ==
    /\ ev.kind = "openPlayer"
    /\ skippedAdsInSession # {}
    /\ Len(moments) < Len(payload)

(***************************************************************************)
(* The moments memo of the two ledger-filtering drafts, applied to every   *)
(* payload and every ledger content:                                       *)
(*   SpecFilter  player/VerticalPlayer.tsx lines 36-43 (skipped ads) and   *)
(*               lines 629-633 (seen ids)                                  *)
(***************************************************************************)

\* The seen filter without its fallback.
FilterSeen_NoFallback(p, seenIds) ==
    LET Keep(id) == id \notin seenIds
    IN  SelectSeq(Ids(p), Keep)

\* The moments memo of the seen-filtering draft: seen moments are filtered
\* out, and the unfiltered list is used when nothing would be left.
FilterSeen(p, seenIds) ==
    LET Keep(id) == id \notin seenIds
        filtered == SelectSeq(Ids(p), Keep)
    IN  IF Len(filtered) > 0 THEN filtered ELSE Ids(p)

\* The ad ids of a payload: what markAdSkipped can have been called with.
AdIds(p) == {i - 1 : i \in {k \in 1..Len(p) : p[k] = "ad"}}

\* The ids of a payload: what markSeen can have been called with.
AllIds(p) == {i - 1 : i \in 1..Len(p)}

\* The skip-filtering draft mounts: moments is computed.
SkipFilterMemo ==
    /\ moments' = FilterSkippedAds(payload, skippedAdsInSession)
    /\ ev' = Ev("skipFilterMemo", "none")
    /\ UNCHANGED <<evars, pagevars, open, index, paused, offset, isAnimating,
                   isDragging, raf, wheelTimeout, cvars>>

\* The seen-filtering draft mounts: moments is computed.
SeenFilterMemo ==
    /\ moments' = FilterSeen(payload, seen)
    /\ ev' = Ev("seenFilterMemo", "none")
    /\ UNCHANGED <<evars, pagevars, open, index, paused, offset, isAnimating,
                   isDragging, raf, wheelTimeout, cvars>>

FilterInit ==
    /\ interestVector = EmptyVector
    /\ watchHistory = <<>>
    /\ calls = 0
    /\ payload \in Payloads
    /\ mobile = FALSE
    /\ skippedAdsInSession \in SUBSET AdIds(payload)
    /\ seen \in SUBSET AllIds(payload)
    /\ NoPlayer
    /\ NoScrollPlayer
    /\ OthersIdle
    /\ ev = Ev("init", "none")

FilterNext ==
    \/ SkipFilterMemo
    \/ SeenFilterMemo

SpecFilter == FilterInit /\ [][FilterNext]_vars

\* C2: whenever the payload is non-empty, the playlist a mount builds is
\* non-empty; when the ledger (skipped ads, or seen ids) covers every moment,
\* the playlist is the whole payload.
C2_PlaylistNeverEmpty ==
    (ev.kind \in {"skipFilterMemo", "seenFilterMemo"} /\ Len(payload) > 0) =>
        /\ Len(moments) > 0
        /\ (ev.kind = "skipFilterMemo"
            /\ \A k \in 1..Len(payload) :
                   payload[k] = "ad" /\ (k - 1) \in skippedAdsInSession)
           => moments = [k \in 1..Len(payload) |-> k - 1]
        /\ (ev.kind = "seenFilterMemo"
            /\ \A k \in 1..Len(payload) : (k - 1) \in seen)
           => moments = [k \in 1..Len(payload) |-> k - 1]

\* C2 witness: every moment of a two-moment payload is in the seen ledger
\* and the mount built the whole payload.
C2_Witness ==
    /\ ev.kind = "seenFilterMemo"
    /\ Len(payload) = 2
    /\ seen = {0, 1}
    /\ moments = <<0, 1>>

(***************************************************************************)
(* player/VerticalPlayer.tsx, lines 1363-1998: the scroll-snap player that *)
(* reports engagement to recommendation/engine.ts                          *)
(*   SpecScroll                                                            *)
(* The scroll container shows one section (visible); the observer reports  *)
(* a newly shown section in a callback of its own.  The markSeen effect is *)
(* left out: this draft writes the seen ledger and never reads it.         *)
(***************************************************************************)

\* Engagement reports explored in one run.
MaxTracks == 2

\* Exit timers pending at once.
MaxExitTimers == 1

\* The playlists the scroll player is run on: an ad between two videos, an
\* ad after two videos, an ad before a video, a single video.
ScrollPayloads ==
    {<<"video", "ad", "video">>, <<"video", "video", "ad">>,
     <<"ad", "video">>, <<"video">>}

\* video.currentTime / video.duration at a timeupdate, in percent.
WatchFractions == {95}

\* moment.tags by content_id; moments past the list carry none.
MomentTags == <<<<"nba">>, <<"nfl">>, <<>>>>

TagsOf(id) == IF id + 1 <= Len(MomentTags) THEN MomentTags[id + 1] ELSE <<>>

\* EvAt records, for handleVideoEnd, the section it was called for.
EvAt(kind, idx) == [kind |-> kind, advance |-> "none", idx |-> idx]

\* recordWatch with the filter that removes the earlier entry left out.
recordWatch_NoDedup(history, contentId) ==
    LET added == <<contentId>> \o history
    IN  SubSeq(added, 1, Min(Len(added), HISTORY_LIMIT))

\* recordWatch(contentId): to the front, duplicates removed, size limited.
recordWatch(history, contentId) ==
    LET Other(id) == id # contentId
        added == <<contentId>> \o SelectSeq(history, Other)
    IN  SubSeq(added, 1, Min(Len(added), HISTORY_LIMIT))

\* Every moment is reported, ads too.
IsTracked_AdsToo(id) == TRUE

\* trackEngagement returns early for an ad.
IsTracked(id) == TypeOf(id) # "ad"

\* trackEngagement(momentIndex, ...) gets as far as the engine.
Tracks(momentIndex) ==
    InRange(momentIndex) /\ IsTracked(moments[momentIndex + 1])

trackEngagement(momentIndex, watchProgress, wasSkipped) ==
    IF ~Tracks(momentIndex)
    THEN UNCHANGED evars
    ELSE LET id == moments[momentIndex + 1]
             tags == TagsOf(id)
             engagementScore == getEngagementScore(watchProgress, wasSkipped)
         IN  /\ calls < MaxTracks
             /\ interestVector' =
                    IF Len(tags) > 0
                    THEN UpdateWeights(interestVector, tags, engagementScore)
                    ELSE interestVector
             /\ watchHistory' = recordWatch(watchHistory, id)
             /\ calls' = calls + 1
             /\ UNCHANGED svars

\* The component unmounts: its state and refs are dropped.  The timers of
\* exitWithAnimation are not cleared.
ScrollUnmount ==
    /\ open' = FALSE
    /\ currentIndex' = 0
    /\ visible' = 0
    /\ reported' = -1
    /\ lastWatched' = NoWatch
    /\ exiting' = FALSE
    /\ paused' = FALSE

exitWithAnimation ==
    /\ exitTimers < MaxExitTimers
    /\ IF lastWatched # NoWatch
       THEN trackEngagement(lastWatched.index, lastWatched.progress, FALSE)
       ELSE UNCHANGED evars
    /\ exiting' = TRUE
    /\ exitTimers' = exitTimers + 1

\* goNext of the scroll player: scrollIntoView of the next section, or exit.
scrollNext ==
    IF currentIndex < total - 1
    THEN /\ visible' = currentIndex + 1
         /\ UNCHANGED <<evars, exiting, exitTimers>>
    ELSE /\ exitWithAnimation
         /\ visible' = visible

\* goPrev of the scroll player; a section that does not exist is not
\* scrolled to.
scrollPrev ==
    /\ visible' = IF currentIndex > 0 /\ InRange(currentIndex - 1)
                  THEN currentIndex - 1 ELSE visible
    /\ UNCHANGED <<evars, exiting, exitTimers>>

\* Widget.openPlayer(originalIndex) and the mount of the scroll player: the
\* section of initialIndex is scrolled to when it exists.
openScrollPlayer(originalIndex) ==
    /\ ~open
    /\ originalIndex \in 0..(Len(payload) - 1)
    /\ TypeOf(originalIndex) # "ad"
    /\ open' = TRUE
    /\ moments' = FilterSkippedAds(payload, skippedAdsInSession)
    /\ currentIndex' = originalIndex
    /\ visible' = IF originalIndex < Len(moments') THEN originalIndex ELSE 0
    /\ reported' = -1
    /\ lastWatched' = NoWatch
    /\ exiting' = FALSE
    /\ paused' = FALSE
    /\ ev' = EvAt("openPlayer", 0)
    /\ UNCHANGED <<evars, payload, mobile, skippedAdsInSession, exitTimers, seen,
                   index, offset, isAnimating, isDragging, raf, wheelTimeout>>

\* What the scroll player's handlers leave alone.
ScrollFrame ==
    UNCHANGED <<payload, mobile, moments, index, offset, isAnimating,
                isDragging, raf, wheelTimeout>>

\* The IntersectionObserver callback for the section now shown: the moment
\* watched before is reported, then this one becomes current.
ObserverCallback ==
    /\ open
    /\ reported # visible
    /\ IF lastWatched # NoWatch /\ lastWatched.index # visible
       THEN trackEngagement(lastWatched.index, lastWatched.progress, FALSE)
       ELSE UNCHANGED evars
    /\ currentIndex' = visible
    /\ paused' = FALSE
    /\ lastWatched' = [index |-> visible, progress |-> 0]
    /\ reported' = visible
    /\ ev' = EvAt("handler", 0)
    /\ ScrollFrame
    /\ UNCHANGED <<open, visible, exiting, exitTimers, skippedAdsInSession,
                   seen>>

\* The user scrolls the container by one section (touch or wheel).
ScrollBy(d) ==
    /\ open
    /\ InRange(visible + d)
    /\ visible' = visible + d
    /\ ev' = EvAt("handler", 0)
    /\ ScrollFrame
    /\ UNCHANGED <<evars, open, currentIndex, reported, lastWatched, exiting,
                   exitTimers, paused, seen, skippedAdsInSession>>

\* handleTimeUpdate of the current video.
handleTimeUpdate(prog) ==
    /\ open
    /\ lastWatched # NoWatch
    /\ lastWatched.index = currentIndex
    /\ lastWatched.progress # prog
    /\ lastWatched' = [lastWatched EXCEPT !.progress = prog]
    /\ ev' = EvAt("handler", 0)
    /\ ScrollFrame
    /\ UNCHANGED <<evars, open, currentIndex, visible, reported, exiting,
                   exitTimers, paused, seen, skippedAdsInSession>>

\* What goNext and goPrev of the scroll player leave alone.
NavFrame ==
    UNCHANGED <<open, currentIndex, reported, lastWatched, paused, seen>>

ScrollKeys == {"ArrowDown", "ArrowUp", "m", "Escape"}

\* onKey of the scroll player (the space key, which toggles paused, is not
\* pressed).  Toggling mute re-creates the observer, which
\* then reports the shown section again.
onScrollKey(key) ==
    /\ open
    /\ CASE key = "ArrowDown" -> scrollNext /\ NavFrame
         [] key = "ArrowUp" -> scrollPrev /\ NavFrame
         [] key = "m" ->
                /\ reported' = -1
                /\ UNCHANGED <<evars, open, currentIndex, visible, paused,
                               lastWatched, exiting, exitTimers, seen>>
         [] key = "Escape" ->
                /\ ScrollUnmount
                /\ UNCHANGED <<evars, exitTimers, seen>>
    /\ ev' = EvAt("handler", 0)
    /\ ScrollFrame
    /\ UNCHANGED skippedAdsInSession

\* The ended event of any section's video is taken for the current one.
IsCurrent_Always(idx) == TRUE

\* idx === currentIndex
IsCurrent(idx) == idx = currentIndex

\* handleVideoEnd(idx), from the onEnded of section idx.
handleVideoEnd(idx) ==
    /\ open
    /\ InRange(idx)
    /\ IF IsCurrent(idx)
       THEN IF idx < total - 1
            THEN /\ visible' = idx + 1
                 /\ UNCHANGED <<evars, exiting, exitTimers>>
            ELSE /\ exitWithAnimation
                 /\ visible' = visible
       ELSE UNCHANGED <<evars, visible, exiting, exitTimers>>
    /\ NavFrame
    /\ ev' = EvAt("handleVideoEnd", idx)
    /\ ScrollFrame
    /\ UNCHANGED skippedAdsInSession

\* Skip Ad of the scroll player, rendered on the active section of an ad.
scrollSkipAd ==
    /\ open
    /\ InRange(currentIndex)
    /\ TypeOf(moments[currentIndex + 1]) = "ad"
    /\ skippedAdsInSession' =
           skippedAdsInSession \cup {moments[currentIndex + 1]}
    /\ scrollNext
    /\ NavFrame
    /\ ev' = EvAt("handler", 0)
    /\ ScrollFrame

scrollArrowNext ==
    /\ open
    /\ ~mobile /\ currentIndex < total - 1
    /\ scrollNext
    /\ NavFrame
    /\ ev' = EvAt("handler", 0)
    /\ ScrollFrame
    /\ UNCHANGED skippedAdsInSession

scrollArrowPrev ==
    /\ open
    /\ ~mobile /\ currentIndex > 0
    /\ scrollPrev
    /\ NavFrame
    /\ ev' = EvAt("handler", 0)
    /\ ScrollFrame
    /\ UNCHANGED skippedAdsInSession

\* The close button of the scroll player: onClose().
scrollCloseButton ==
    /\ open
    /\ ScrollUnmount
    /\ ev' = EvAt("handler", 0)
    /\ ScrollFrame
    /\ UNCHANGED <<evars, exitTimers, seen, skippedAdsInSession>>

\* touchend on the container, the finger deltaY pixels above its start.
containerTouchEnd(deltaY) ==
    /\ open
    /\ IF currentIndex = total - 1 /\ deltaY > 50
       THEN exitWithAnimation
       ELSE UNCHANGED <<evars, exiting, exitTimers>>
    /\ NavFrame
    /\ ev' = EvAt("handler", 0)
    /\ ScrollFrame
    /\ UNCHANGED <<visible, skippedAdsInSession>>

\* wheel on the container (desktop), one movement of deltaY.
containerWheel(deltaY) ==
    /\ open
    /\ ~mobile
    /\ IF currentIndex = total - 1 /\ deltaY > 150
       THEN exitWithAnimation
       ELSE UNCHANGED <<evars, exiting, exitTimers>>
    /\ NavFrame
    /\ ev' = EvAt("handler", 0)
    /\ ScrollFrame
    /\ UNCHANGED <<visible, skippedAdsInSession>>

\* A timer of exitWithAnimation fires: onClose().
ExitTimerFires ==
    /\ exitTimers > 0
    /\ exitTimers' = exitTimers - 1
    /\ IF open
       THEN ScrollUnmount
       ELSE UNCHANGED <<open, currentIndex, visible, reported, lastWatched,
                        exiting, paused>>
    /\ ev' = EvAt("handler", 0)
    /\ ScrollFrame
    /\ UNCHANGED <<evars, seen, skippedAdsInSession>>

\* The page is loaded again; localStorage (profile, seen ledger) stays.
ScrollReload ==
    /\ ev.kind # "init"
    /\ skippedAdsInSession' = {}
    /\ ScrollUnmount
    /\ exitTimers' = 0
    /\ moments' = <<>>
    /\ ev' = EvAt("reload", 0)
    /\ UNCHANGED <<evars, payload, mobile, seen, index, offset, isAnimating,
                   isDragging, raf, wheelTimeout>>

ScrollInit ==
    /\ interestVector = EmptyVector
    /\ watchHistory = <<>>
    /\ calls = 0
    /\ payload \in ScrollPayloads
    /\ mobile \in BOOLEAN
    /\ skippedAdsInSession = {}
    /\ seen = {}
    /\ NoPlayer
    /\ NoScrollPlayer
    /\ OthersIdle
    /\ ev = EvAt("init", 0)

ScrollNext ==
    \/ \E originalIndex \in 0..(Len(payload) - 1) :
           openScrollPlayer(originalIndex)
    \/ ObserverCallback
    \/ \E d \in {-1, 1} : ScrollBy(d)
    \/ \E prog \in WatchFractions : handleTimeUpdate(prog)
    \/ \E key \in ScrollKeys : onScrollKey(key)
    \/ \E idx \in 0..(Len(payload) - 1) : handleVideoEnd(idx)
    \/ scrollSkipAd
    \/ scrollArrowNext
    \/ scrollArrowPrev
    \/ scrollCloseButton
    \/ \E deltaY \in {0, 100} : containerTouchEnd(deltaY)
    \/ \E deltaY \in {-200, 200} : containerWheel(deltaY)
    \/ ExitTimerFires
    \/ ScrollReload

SpecScroll == ScrollInit /\ [][ScrollNext]_vars

(***************************************************************************)
(* Claims about the scroll player                                          *)
(***************************************************************************)

\* C4: an ended event for section idx does what a next request does (scroll
\* to the next section, or start the exit on the last one) only when idx is
\* the current index; an ended event of any other section changes neither
\* the current index, the scroll position, the open status nor the profile.
C4_StaleEndedIgnored ==
    [][\A idx \in 0..(Len(payload) - 1) :
          handleVideoEnd(idx) =>
              IF idx = currentIndex
              THEN /\ currentIndex' = currentIndex
                   /\ open' = open
                   /\ IF currentIndex < Len(moments) - 1
                      THEN visible' = currentIndex + 1 /\ exiting' = exiting
                      ELSE exiting' /\ exitTimers' = exitTimers + 1
              ELSE /\ currentIndex' = currentIndex
                   /\ open' = open
                   /\ visible' = visible
                   /\ exiting' = exiting
                   /\ exitTimers' = exitTimers
                   /\ interestVector' = interestVector
                   /\ watchHistory' = watchHistory
      ]_vars

\* C4 witness: an ended event of a section that is not the current one was
\* handled while the player was open and not exiting.
C4_Witness ==
    /\ ev.kind = "handleVideoEnd"
    /\ ev.idx # currentIndex
    /\ open
    /\ ~exiting
    /\ lastWatched = [index |-> currentIndex, progress |-> 95]

\* C7: while the current moment is an ad, no step (leaving it, skipping it,
\* its end, closing) changes a weight of the interest vector or the watch
\* history, whatever fraction of the ad was watched.
C7_AdsLeaveProfileAlone ==
    [][(/\ open
        /\ currentIndex >= 0 /\ currentIndex < Len(moments)
        /\ payload[moments[currentIndex + 1] + 1] = "ad")
       => (interestVector' = interestVector /\ watchHistory' = watchHistory)
      ]_vars

\* C7 witness: an ad watched to 95% ended on the last index and the exit
\* started.
C7_Witness ==
    /\ ev.kind = "handleVideoEnd"
    /\ exiting
    /\ currentIndex = Len(moments) - 1
    /\ payload[moments[currentIndex + 1] + 1] = "ad"
    /\ lastWatched = [index |-> currentIndex, progress |-> 95]

\* C8: every step that leaves a non-ad moment the observer made active - a
\* switch to another moment, the start of the exit, or the close of the
\* player by any control - hands it to the engine: it is at the front of the
\* watch history when the step is done.
C8_DepartureReported ==
    [][(/\ open
        /\ currentIndex >= 0 /\ currentIndex < Len(moments)
        /\ lastWatched # NoWatch /\ lastWatched.index = currentIndex
        /\ payload[moments[currentIndex + 1] + 1] # "ad"
        /\ ev'.kind # "reload"
        /\ (~open' \/ (exiting' /\ ~exiting) \/ currentIndex' # currentIndex))
       => (/\ Len(watchHistory') > 0
           /\ watchHistory'[1] = moments[currentIndex + 1])
      ]_vars

(***************************************************************************)
(* recommendation/engine.ts: recordWatch on a stored history               *)
(***************************************************************************)

\* recordWatch calls explored from each stored history.
MaxRecords == 3

\* The history recordWatch leaves after n distinct ids were recorded, the
\* id 0 last: 0, 1, ..., n-1.
HistoryOf(n) == [i \in 1..n |-> i - 1]

\* Histories a stored profile can hold from earlier sessions: none, one
\* short of the limit, and full.
StoredHistories ==
    {HistoryOf(0), HistoryOf(HISTORY_LIMIT - 1), HistoryOf(HISTORY_LIMIT)}

\* The ids recorded: the front entry, the two oldest a full history can
\* hold, and two that no stored history holds.
RecordIds == {0, HISTORY_LIMIT - 2, HISTORY_LIMIT - 1, HISTORY_LIMIT,
              HISTORY_LIMIT + 1}

\* recordWatch(contentId): load the profile, rebuild the history, save.
RecordWatch(contentId) ==
    /\ calls < MaxRecords
    /\ watchHistory' = recordWatch(watchHistory, contentId)
    /\ calls' = calls + 1
    /\ ev' = EvAt("recordWatch", contentId)
    /\ UNCHANGED <<interestVector, svars, pagevars, pvars>>

HistoryInit ==
    /\ interestVector = EmptyVector
    /\ watchHistory \in StoredHistories
    /\ calls = 0
    /\ NoPage
    /\ NoPlayer
    /\ NoScrollPlayer
    /\ OthersIdle
    /\ ev = Ev("init", "none")

HistoryNext == \E contentId \in RecordIds : RecordWatch(contentId)

SpecHistory == HistoryInit /\ [][HistoryNext]_vars

C11_Entries(h) == {h[i] : i \in DOMAIN h}

C11_Position(h, id) == CHOOSE i \in DOMAIN h : h[i] = id

C11_NoDuplicate(h) == \A i, j \in DOMAIN h : h[i] = h[j] => i = j

\* C11: after any sequence of recordWatch calls the history has no id
\* twice and at most 50 entries, and its first entry is the id of the last
\* call; recording an id the history already holds keeps the other entries,
\* all of them, in the order they had.
C11_HistoryShape ==
    /\ [](C11_NoDuplicate(watchHistory) /\ Len(watchHistory) <= 50)
    /\ [][\A contentId \in RecordIds :
            RecordWatch(contentId) =>
                /\ watchHistory'[1] = contentId
                /\ contentId \in C11_Entries(watchHistory) =>
                       /\ C11_Entries(watchHistory') = C11_Entries(watchHistory)
                       /\ \A a, b \in C11_Entries(watchHistory) \ {contentId} :
                              C11_Position(watchHistory, a)
                                  < C11_Position(watchHistory, b)
                              <=> C11_Position(watchHistory', a)
                                      < C11_Position(watchHistory', b)
         ]_vars

\* C11 witness: on a full history 0..49 the new id 50 was recorded (49 fell
\* off the end) and then 48, held already, which moved to the front.
C11_Witness ==
    /\ ev.kind = "recordWatch"
    /\ calls = 2
    /\ Len(watchHistory) = 50
    /\ watchHistory[1] = 48
    /\ watchHistory[2] = 50
    /\ watchHistory[3] = 0
    /\ watchHistory[50] = 47

(***************************************************************************)
(* recommendation/engine.ts: calculateScore and rankVideos                 *)
(* Scores are fixed-point numbers in units of 0.00001: a weight of w       *)
(* thousandths is w * 100, and 70% of the mean of n weights that sum to    *)
(* s thousandths is (s * 70) / n, exact for the tag lists of the model.    *)
(* Popularity is in percents.                                              *)
(***************************************************************************)

\* Videos handed to one rankVideos call.
MaxVideos == 2

\* recentHistory = profile.watchHistory.slice(0, 20)
RECENT_HISTORY == 20

\* return -10.0
PENALTY_SCORE == -1000000

\* affinityScore += 0.5, and the default of globalPopularity, in percent
EXPLORATION_BONUS == 500
DEFAULT_POPULARITY == 50

\* Math.random() is in [0, 1): noise = (Math.random() - 0.5) * 0.1 is in
\* [-0.05, 0.05); its least value, zero and a value next to its upper end.
Noises == {-5000, 0, 4999}

\* A stored history of 25 ids, 0 the most recent: 19 is the last of the
\* recent 20, 20 the first one that is not.
RankHistories == {HistoryOf(0), HistoryOf(RECENT_HISTORY + 5)}

\* Weights a profile can hold, both caps among them.
RankWeights == {MIN_WEIGHT, NEUTRAL_WEIGHT, MAX_WEIGHT}

RankVectors == UNION {[D -> RankWeights] : D \in SUBSET Tags}

\* The catalogue the ranked lists are drawn from: VideoMeta by content_id.
\* A globalPopularity of -1 stands for one that is not set.
VideoIds == {0, RECENT_HISTORY - 1, RECENT_HISTORY, RECENT_HISTORY + 10}

VideoMeta(id) ==
    IF id = 0
    THEN [content_id |-> id, tags |-> <<"nba">>, globalPopularity |-> 100]
    ELSE IF id = RECENT_HISTORY - 1
    THEN [content_id |-> id, tags |-> <<"nba", "nfl">>, globalPopularity |-> -1]
    ELSE IF id = RECENT_HISTORY
    THEN [content_id |-> id, tags |-> <<"nfl">>, globalPopularity |-> 0]
    ELSE [content_id |-> id, tags |-> <<>>, globalPopularity |-> 0]

\* Lists of one to MaxVideos videos of the catalogue, none twice.
VideoLists ==
    {[i \in DOMAIN ids |-> VideoMeta(ids[i])] :
        ids \in {q \in UNION {[1..n -> VideoIds] : n \in 1..MaxVideos} :
                    \A i, j \in DOMAIN q : q[i] = q[j] => i = j}}

\* The recent history taken to be the whole history.
recentHistory_Whole(history) == history

\* profile.watchHistory.slice(0, 20)
recentHistory(history) == SubSeq(history, 1, Min(Len(history), RECENT_HISTORY))

\* The loop over video.tags: the stored weight, or 0.5 for an unknown tag.
RECURSIVE affinityScore(_, _)
affinityScore(iv, tags) ==
    IF tags = <<>> THEN 0
    ELSE (IF Head(tags) \in DOMAIN iv THEN iv[Head(tags)]
          ELSE EXPLORATION_BONUS)
         + affinityScore(iv, Tail(tags))

\* calculateScore(profile, video), noise being this call's random draw.
calculateScore(iv, history, video, noise) ==
    LET recent == recentHistory(history)
    IN  IF \E i \in DOMAIN recent : recent[i] = video.content_id
        THEN PENALTY_SCORE
        ELSE LET relevance ==
                     (affinityScore(iv, video.tags) * 70)
                         \div Max(1, Len(video.tags))
                 popularity ==
                     IF video.globalPopularity = -1 THEN DEFAULT_POPULARITY
                     ELSE video.globalPopularity
             IN  relevance + popularity * 300 + noise

\* scored.sort((a, b) => b.score - a.score): Array.prototype.sort is
\* stable, entries with equal scores keep their order.
RECURSIVE InsertByScore(_, _)
InsertByScore(sorted, entry) ==
    IF sorted = <<>> THEN <<entry>>
    ELSE IF Head(sorted).score >= entry.score
    THEN <<Head(sorted)>> \o InsertByScore(Tail(sorted), entry)
    ELSE <<entry>> \o sorted

RECURSIVE SortByScore(_)
SortByScore(entries) ==
    IF entries = <<>> THEN <<>>
    ELSE InsertByScore(SortByScore(SubSeq(entries, 1, Len(entries) - 1)),
                       entries[Len(entries)])

\* rankVideos(videos): every video scored with a draw of its own, sorted.
rankVideos(noises) ==
    /\ scored' = SortByScore(
           [i \in DOMAIN videos |->
               [video |-> videos[i],
                score |-> calculateScore(interestVector, watchHistory,
                                         videos[i], noises[i])]])
    /\ ev' = Ev("rankVideos", "none")
    /\ UNCHANGED <<interestVector, watchHistory, calls, videos, lsvars,
                   xvars, pagevars, pvars>>

\* What rankVideos returns: scored.map(s => s.video), by content_id.
Ranked == [i \in DOMAIN scored |-> scored[i].video.content_id]

RankInit ==
    /\ interestVector \in RankVectors
    /\ watchHistory \in RankHistories
    /\ calls = 0
    /\ videos \in VideoLists
    /\ scored = <<>>
    /\ NoStorage
    /\ NoOthers
    /\ NoPage
    /\ NoPlayer
    /\ NoScrollPlayer
    /\ ev = Ev("init", "none")

RankNext == \E noises \in [1..Len(videos) -> Noises] : rankVideos(noises)

SpecRank == RankInit /\ [][RankNext]_vars

\* The id is among the 20 most recent entries of the history.
C12_Penalized(id) ==
    \E i \in 1..20 : i <= Len(watchHistory) /\ watchHistory[i] = id

C13_PlaylistInRankerOrder ==
    (open /\ ev.kind = "openPlayer") =>
        \A i, j \in DOMAIN moments :
            (i < j /\ C12_Penalized(moments[i])) => C12_Penalized(moments[j])

(***************************************************************************)
(* unnamed/part_006 (seen.ts): the seen ledger as the array it stores      *)
(***************************************************************************)

\* markSeen calls explored from each stored ledger.
MaxMarks == 3

\* seen.slice(-5000)
SEEN_LIMIT == 5000

\* The ledger markSeen leaves after the ids 0, 1, ..., n-1 were marked in
\* this order: the oldest first.
LedgerOf(n) == [i \in 1..n |-> i - 1]

\* Ledgers stored by earlier sessions: none, one short of the limit, full.
StoredLedgers == {LedgerOf(0), LedgerOf(SEEN_LIMIT - 1), LedgerOf(SEEN_LIMIT)}

\* The ids marked: the oldest and the newest a full ledger holds, and two
\* that no stored ledger holds.
MarkIds == {0, SEEN_LIMIT - 1, SEEN_LIMIT, SEEN_LIMIT + 1}

\* The slice that keeps the oldest entries instead of the newest.
LastEntries_First(array, n) == SubSeq(array, 1, Min(Len(array), n))

\* array.slice(-n)
LastEntries(array, n) == SubSeq(array, Max(1, Len(array) - n + 1), Len(array))

\* Array.from(new Set(array)): the first occurrence of every entry, in
\* order.
RECURSIVE Distinct(_)
Distinct(array) ==
    IF array = <<>> THEN <<>>
    ELSE LET front == Distinct(SubSeq(array, 1, Len(array) - 1))
             last == array[Len(array)]
         IN  IF \E i \in DOMAIN front : front[i] = last THEN front
             ELSE Append(front, last)

\* What markSeen stores for this ledger and id: Array.from(getSeen()), which
\* is the stored array when no entry is there twice, the id pushed unless
\* included, the last 5000 entries.
Marked(array, id) ==
    LET seenArray == IF Cardinality({array[i] : i \in DOMAIN array}) = Len(array)
                     THEN array
                     ELSE Distinct(array)
        pushed == IF \E i \in DOMAIN seenArray : seenArray[i] = id
                  THEN seenArray
                  ELSE Append(seenArray, id)
    IN  LastEntries(pushed, SEEN_LIMIT)

\* markSeen(id) with localStorage working.
LedgerMarkSeen(id) ==
    /\ calls < MaxMarks
    /\ ledger' = Marked(ledger, id)
    /\ calls' = calls + 1
    /\ ev' = EvAt("markSeen", id)
    /\ UNCHANGED <<interestVector, watchHistory, rvars, ledgerRaw, profileRaw,
                   failing, thrown, xvars, pagevars, pvars>>

LedgerInit ==
    /\ interestVector = EmptyVector
    /\ watchHistory = <<>>
    /\ calls = 0
    /\ NoRanker
    /\ ledger \in StoredLedgers
    /\ ledgerRaw = "array"
    /\ profileRaw = "profile"
    /\ failing = "none"
    /\ thrown = FALSE
    /\ NoOthers
    /\ NoPage
    /\ NoPlayer
    /\ NoScrollPlayer
    /\ ev = Ev("init", "none")

LedgerNext == \E id \in MarkIds : LedgerMarkSeen(id)

SpecLedger == LedgerInit /\ [][LedgerNext]_vars

C14_Ids(array) == {array[i] : i \in DOMAIN array}

\* C14: after any sequence of markSeen calls the ledger holds at most 5000
\* ids and none twice; marking an id it holds changes nothing; marking a
\* new id appends it, and on a full ledger drops the oldest entry and keeps
\* the other 4999 in their order, so that marking 5001 distinct ids leaves
\* 5000 with the first one absent.
C14_LedgerCapped ==
    /\ [](Len(ledger) <= 5000 /\ Cardinality(C14_Ids(ledger)) = Len(ledger))
    /\ [][\A id \in MarkIds :
            LedgerMarkSeen(id) =>
                IF id \in C14_Ids(ledger)
                THEN ledger' = ledger
                ELSE /\ ledger'[Len(ledger')] = id
                     /\ IF Len(ledger) < 5000
                        THEN /\ Len(ledger') = Len(ledger) + 1
                             /\ \A i \in DOMAIN ledger : ledger'[i] = ledger[i]
                        ELSE /\ Len(ledger') = 5000
                             /\ ledger[1] \notin C14_Ids(ledger')
                             /\ \A i \in 1..4999 : ledger'[i] = ledger[i + 1]
         ]_vars

\* C14 witness: the 5001st distinct id was marked on the full ledger
\* 0..4999: 5000 ids are left, the first one marked is gone.
C14_Witness ==
    /\ ev.kind = "markSeen"
    /\ calls = 1
    /\ Len(ledger) = 5000
    /\ ledger[1] = 1
    /\ ledger[5000] = 5000
    /\ 0 \notin C14_Ids(ledger)

(***************************************************************************)
(* unnamed/part_006 (seen.ts) and recommendation/engine.ts on a            *)
(* localStorage that can fail: getItem or setItem throws (privacy mode,    *)
(* quota exceeded), or the stored text does not parse                      *)
(***************************************************************************)

\* Storage calls explored from each state of the storage.
MaxStorageCalls == 2

\* The ids marked and recorded.
StorageIds == {0, 1}

\* Arrays of ids stored under the seen key.
StorageLedgers == {<<>>, <<0>>, <<0, 1>>}

\* Stored values of the seen key: no item, text that JSON.parse rejects, or
\* the array that ledger holds.
LedgerKinds == {"none", "corrupt", "array"}

\* Stored values of the profile key: no item, text that JSON.parse rejects,
\* or the profile that interestVector and watchHistory hold.
ProfileKinds == {"none", "corrupt", "profile"}

FailureModes == {"none", "getItem", "setItem"}

\* The try block of getSeen and of getUserProfile completes.
Readable(raw) == failing # "getItem" /\ raw # "corrupt"

\* getSeen() as an array: the stored array through a Set, or the empty set
\* of the catch block.
getSeen ==
    IF Readable(ledgerRaw) /\ ledgerRaw = "array" THEN Distinct(ledger)
    ELSE <<>>

\* getUserProfile(): the stored profile, or the default one when there is
\* no item or the try block failed.
LoadedVector ==
    IF Readable(profileRaw) /\ profileRaw = "profile" THEN interestVector
    ELSE EmptyVector

LoadedHistory ==
    IF Readable(profileRaw) /\ profileRaw = "profile" THEN watchHistory
    ELSE <<>>

\* saveUserProfile(profile): the error of setItem is caught and logged.
saveUserProfile(iv, history) ==
    IF failing = "setItem"
    THEN UNCHANGED <<interestVector, watchHistory, profileRaw>>
    ELSE /\ interestVector' = iv
         /\ watchHistory' = history
         /\ profileRaw' = "profile"

\* A caller reads the ledger.
StorageGetSeen ==
    /\ calls < MaxStorageCalls
    /\ calls' = calls + 1
    /\ thrown' = FALSE
    /\ ev' = [kind |-> "getSeen", advance |-> "none", result |-> getSeen]
    /\ UNCHANGED <<interestVector, watchHistory, rvars, ledger, ledgerRaw,
                   profileRaw, failing, xvars, pagevars, pvars>>

\* markSeen(id): read through getSeen, push, setItem; setItem is in no try
\* block, its error reaches the caller.
StorageMarkSeen(id) ==
    /\ calls < MaxStorageCalls
    /\ calls' = calls + 1
    /\ IF failing = "setItem"
       THEN /\ thrown' = TRUE
            /\ UNCHANGED <<ledger, ledgerRaw>>
       ELSE /\ thrown' = FALSE
            /\ ledger' = Marked(getSeen, id)
            /\ ledgerRaw' = "array"
    /\ ev' = [kind |-> "markSeen", advance |-> "none", result |-> <<>>]
    /\ UNCHANGED <<interestVector, watchHistory, rvars, profileRaw, failing,
                   xvars, pagevars, pvars>>

\* updateUserInterest(tags, engagementScore): load, update, save.
StorageUpdateInterest(tags, engagementScore) ==
    /\ calls < MaxStorageCalls
    /\ calls' = calls + 1
    /\ saveUserProfile(UpdateWeights(LoadedVector, tags, engagementScore),
                       LoadedHistory)
    /\ thrown' = FALSE
    /\ ev' = [kind |-> "updateUserInterest", advance |-> "none",
              result |-> <<>>]
    /\ UNCHANGED <<rvars, ledger, ledgerRaw, failing, xvars, pagevars, pvars>>

\* recordWatch(contentId): load, rebuild the history, save.
StorageRecordWatch(contentId) ==
    /\ calls < MaxStorageCalls
    /\ calls' = calls + 1
    /\ saveUserProfile(LoadedVector, recordWatch(LoadedHistory, contentId))
    /\ thrown' = FALSE
    /\ ev' = [kind |-> "recordWatch", advance |-> "none", result |-> <<>>]
    /\ UNCHANGED <<rvars, ledger, ledgerRaw, failing, xvars, pagevars, pvars>>

StorageInit ==
    /\ profileRaw \in ProfileKinds
    /\ interestVector \in
           IF profileRaw = "profile"
           THEN {EmptyVector, [t \in {"nba"} |-> NEUTRAL_WEIGHT]}
           ELSE {EmptyVector}
    /\ watchHistory \in
           IF profileRaw = "profile" THEN {<<>>, <<0>>} ELSE {<<>>}
    /\ calls = 0
    /\ NoRanker
    /\ ledgerRaw \in LedgerKinds
    /\ ledger \in IF ledgerRaw = "array" THEN StorageLedgers ELSE {<<>>}
    /\ failing \in FailureModes
    /\ thrown = FALSE
    /\ NoOthers
    /\ NoPage
    /\ NoPlayer
    /\ NoScrollPlayer
    /\ ev = Ev("init", "none")

StorageNext ==
    \/ StorageGetSeen
    \/ \E id \in StorageIds : StorageMarkSeen(id)
    \/ StorageUpdateInterest(<<"nba">>, 1000)
    \/ \E contentId \in StorageIds : StorageRecordWatch(contentId)

SpecStorage == StorageInit /\ [][StorageNext]_vars

\* C15: storage is best-effort: when a read or a write of localStorage
\* fails, getSeen, markSeen, the profile load and the profile save complete
\* without raising an error to their caller.
C15_NeverThrows == thrown = FALSE

(***************************************************************************)
(* player/useVideoCache.ts: both drafts of the file.  The Cache API draft  *)
(* (lines 1-196) caches in the background; the blob draft (lines 198-344)  *)
(* resolves a locator to a blob URL and lets callers wait for a fetch in   *)
(* progress.  A task is one call of cacheInBackground or fetchVideoAsBlob, *)
(* suspended at one of its awaits; between two awaits it runs alone.       *)
(***************************************************************************)

\* Calls made in one run.
MaxCallers == 3

Callers == 1..MaxCallers

\* Two locators of one file: getCacheKey gives both the same pathname.
Locators == {"/a.mp4", "/a.mp4?v=2"}

Drafts == {"cacheApi", "blob"}

\* new URL(url, window.location.origin) for the locators of the model: a
\* relative locator takes the origin of the page.
ParsedUrl(url) ==
    CASE url = "/a.mp4" ->
             [origin |-> "https://page.example", pathname |-> "/a.mp4",
              search |-> ""]
      [] url = "/a.mp4?v=2" ->
             [origin |-> "https://page.example", pathname |-> "/a.mp4",
              search |-> "?v=2"]
      [] url = "https://cdn.example/a.mp4" ->
             [origin |-> "https://cdn.example", pathname |-> "/a.mp4",
              search |-> ""]

\* getCacheKey(url): new URL(url, origin).pathname
getCacheKey(url) == ParsedUrl(url).pathname

IdleTask == [url |-> "none", pc |-> "idle", result |-> "none"]

\* The next call is made by the first caller that has not called yet.
NextCaller(c) ==
    /\ tasks[c].pc = "idle"
    /\ \A b \in Callers : b < c => tasks[b].pc # "idle"

\* The tasks whose network fetch for this locator is in flight.
Fetching(url) == {c \in Callers : tasks[c].url = url /\ tasks[c].pc = "fetch"}

\* The check of fetchingInProgress left out.
IsInProgress_Never(url) == FALSE

\* cachingInProgress.has(url) / fetchingInProgress.has(url)
IsInProgress(url) == url \in inProgress

\* The callbacks of the catch block left out.
PendingOnFailure_None(url) == <<>>

\* pendingCallbacks.get(remoteUrl) || [] in the catch block
PendingOnFailure(url) == pendingCallbacks[url]

\* callbacks.forEach(cb => cb(value)) and the return of the task itself:
\* the callers in callbacks and the caller c have their result.
Settled(c, callbacks, value) ==
    [b \in Callers |->
        IF b = c \/ \E i \in DOMAIN callbacks : callbacks[i] = b
        THEN [tasks[b] EXCEPT !.pc = "done", !.result = value]
        ELSE tasks[b]]

CacheFrame == UNCHANGED <<interestVector, watchHistory, calls, rvars, lsvars,
                          slvars, gvars, tvars, mvars, rdvars, pagevars,
                          pvars, draft,
                          blobUrlOf, objectUrls>>

\* fetchVideoAsBlob(remoteUrl) up to its first await.
fetchVideoAsBlob(c, url) ==
    IF url \in blobUrlCache
    THEN /\ tasks' = [tasks EXCEPT ![c] =
                         [url |-> url, pc |-> "done", result |-> "blob"]]
         /\ UNCHANGED <<blobUrlCache, cacheApi, inProgress, pendingCallbacks,
                        fetchLog>>
    ELSE IF IsInProgress(url)
    THEN /\ pendingCallbacks' =
                [pendingCallbacks EXCEPT ![url] = Append(@, c)]
         /\ tasks' = [tasks EXCEPT ![c] =
                         [url |-> url, pc |-> "waiting", result |-> "none"]]
         /\ UNCHANGED <<blobUrlCache, cacheApi, inProgress, fetchLog>>
    ELSE /\ inProgress' = inProgress \cup {url}
         /\ fetchLog' = [fetchLog EXCEPT ![url] = @ + 1]
         /\ tasks' = [tasks EXCEPT ![c] =
                         [url |-> url, pc |-> "fetch", result |-> "none"]]
         /\ UNCHANGED <<blobUrlCache, cacheApi, pendingCallbacks>>

\* The effect of useVideoCache (blob draft) for remoteUrl: the cached blob
\* URL at once, or fetchVideoAsBlob.
resolve(c, url) ==
    /\ draft = "blob"
    /\ NextCaller(c)
    /\ fetchVideoAsBlob(c, url)
    /\ ev' = Ev("resolve", "none")
    /\ CacheFrame

\* preloadToCache(url) (blob draft): nothing when cached or being fetched.
preloadToCache(c, url) ==
    /\ draft = "blob"
    /\ NextCaller(c)
    /\ IF url \in blobUrlCache \/ IsInProgress(url)
       THEN /\ tasks' = [tasks EXCEPT ![c] =
                            [url |-> url, pc |-> "done", result |-> "none"]]
            /\ UNCHANGED <<blobUrlCache, cacheApi, inProgress,
                           pendingCallbacks, fetchLog>>
       ELSE fetchVideoAsBlob(c, url)
    /\ ev' = Ev("preload", "none")
    /\ CacheFrame

\* The catch and finally blocks of fetchVideoAsBlob: every pending callback
\* and the caller get the remote locator, nothing is cached.
FetchFailed(c) ==
    LET url == tasks[c].url
    IN  /\ tasks' = Settled(c, PendingOnFailure(url), url)
        /\ pendingCallbacks' = [pendingCallbacks EXCEPT ![url] = <<>>]
        /\ inProgress' = inProgress \ {url}
        /\ UNCHANGED <<blobUrlCache, cacheApi, fetchLog>>

\* await fetch(remoteUrl) settles (blob draft): a response that is ok, or
\* a rejection or a response that is not ok.
BlobFetchSettles(c, ok) ==
    /\ draft = "blob"
    /\ tasks[c].pc = "fetch"
    /\ IF ok
       THEN /\ tasks' = [tasks EXCEPT ![c].pc = "blob"]
            /\ UNCHANGED <<blobUrlCache, cacheApi, inProgress,
                           pendingCallbacks, fetchLog>>
       ELSE FetchFailed(c)
    /\ ev' = Ev(IF ok THEN "handler" ELSE "fetchFailed", "none")
    /\ CacheFrame

\* await response.blob() settles (blob draft): the blob URL is cached and
\* handed to every pending callback and to the caller, or the catch block
\* runs.
BlobReadSettles(c, ok) ==
    /\ draft = "blob"
    /\ tasks[c].pc = "blob"
    /\ IF ok
       THEN LET url == tasks[c].url
            IN  /\ blobUrlCache' = blobUrlCache \cup {url}
                /\ tasks' = Settled(c, pendingCallbacks[url], "blob")
                /\ pendingCallbacks' = [pendingCallbacks EXCEPT ![url] = <<>>]
                /\ inProgress' = inProgress \ {url}
                /\ UNCHANGED <<cacheApi, fetchLog>>
       ELSE FetchFailed(c)
    /\ ev' = Ev(IF ok THEN "handler" ELSE "fetchFailed", "none")
    /\ CacheFrame

\* cacheInBackground(url) up to its first await (Cache API draft).
cacheInBackground(c, url) ==
    /\ draft = "cacheApi"
    /\ NextCaller(c)
    /\ IF getCacheKey(url) \in blobUrlCache \/ IsInProgress(url)
       THEN /\ tasks' = [tasks EXCEPT ![c] =
                            [url |-> url, pc |-> "done", result |-> "none"]]
            /\ UNCHANGED inProgress
       ELSE /\ tasks' = [tasks EXCEPT ![c] =
                            [url |-> url, pc |-> "open", result |-> "none"]]
            /\ inProgress' = inProgress \cup {url}
    /\ ev' = Ev("preload", "none")
    /\ UNCHANGED <<blobUrlCache, cacheApi, pendingCallbacks, fetchLog>>
    /\ CacheFrame

\* The catch and finally blocks of cacheInBackground.
CachingEnded(c) ==
    /\ tasks' = [tasks EXCEPT ![c].pc = "done"]
    /\ inProgress' = inProgress \ {tasks[c].url}

\* One await of cacheInBackground settles: caches.open, cache.match, fetch,
\* cache.put, response.blob, in this order; a rejection ends the call.
CachingStep(c, ok) ==
    /\ draft = "cacheApi"
    /\ tasks[c].pc \in {"open", "match", "fetch", "put", "blob"}
    /\ LET url == tasks[c].url
           pc == tasks[c].pc
       IN  IF ~ok
           THEN CachingEnded(c) /\ UNCHANGED <<blobUrlCache, cacheApi, fetchLog>>
           ELSE IF pc = "open"
           THEN /\ tasks' = [tasks EXCEPT ![c].pc = "match"]
                /\ UNCHANGED <<blobUrlCache, cacheApi, inProgress, fetchLog>>
           ELSE IF pc = "match"
           THEN IF url \in cacheApi
                THEN CachingEnded(c)
                     /\ UNCHANGED <<blobUrlCache, cacheApi, fetchLog>>
                ELSE /\ tasks' = [tasks EXCEPT ![c].pc = "fetch"]
                     /\ fetchLog' = [fetchLog EXCEPT ![url] = @ + 1]
                     /\ UNCHANGED <<blobUrlCache, cacheApi, inProgress>>
           ELSE IF pc = "fetch"
           THEN /\ tasks' = [tasks EXCEPT ![c].pc = "put"]
                /\ UNCHANGED <<blobUrlCache, cacheApi, inProgress, fetchLog>>
           ELSE IF pc = "put"
           THEN /\ tasks' = [tasks EXCEPT ![c].pc = "blob"]
                /\ cacheApi' = cacheApi \cup {url}
                /\ UNCHANGED <<blobUrlCache, inProgress, fetchLog>>
           ELSE /\ CachingEnded(c)
                /\ blobUrlCache' = blobUrlCache \cup {getCacheKey(url)}
                /\ UNCHANGED <<cacheApi, fetchLog>>
    /\ ev' = Ev("handler", "none")
    /\ UNCHANGED pendingCallbacks
    /\ CacheFrame

\* getFromCache(url) (Cache API draft) finds the response in the Cache API
\* and keeps its blob URL in memory.
getFromCache(url) ==
    /\ draft = "cacheApi"
    /\ getCacheKey(url) \notin blobUrlCache
    /\ url \in cacheApi
    /\ blobUrlCache' = blobUrlCache \cup {getCacheKey(url)}
    /\ ev' = Ev("handler", "none")
    /\ UNCHANGED <<cacheApi, inProgress, pendingCallbacks, tasks, fetchLog>>
    /\ CacheFrame

CacheInit ==
    /\ interestVector = EmptyVector
    /\ watchHistory = <<>>
    /\ calls = 0
    /\ NoRanker
    /\ NoStorage
    /\ draft \in Drafts
    /\ blobUrlCache = {}
    /\ cacheApi \in IF draft = "cacheApi" THEN SUBSET Locators ELSE {{}}
    /\ inProgress = {}
    /\ pendingCallbacks = [url \in Locators |-> <<>>]
    /\ tasks = [c \in Callers |-> IdleTask]
    /\ fetchLog = [url \in Locators |-> 0]
    /\ blobUrlOf = <<>>
    /\ objectUrls = {}
    /\ NoSlots
    /\ NoGesture
    /\ NoTurns
    /\ NoMedia
    /\ NoRenderers
    /\ NoPage
    /\ NoPlayer
    /\ NoScrollPlayer
    /\ ev = Ev("init", "none")

CacheNext ==
    \/ \E c \in Callers, url \in Locators : resolve(c, url)
    \/ \E c \in Callers, url \in Locators : preloadToCache(c, url)
    \/ \E c \in Callers, ok \in BOOLEAN : BlobFetchSettles(c, ok)
    \/ \E c \in Callers, ok \in BOOLEAN : BlobReadSettles(c, ok)
    \/ \E c \in Callers, url \in Locators : cacheInBackground(c, url)
    \/ \E c \in Callers, ok \in BOOLEAN : CachingStep(c, ok)
    \/ \E url \in Locators : getFromCache(url)

SpecCache == CacheInit /\ [][CacheNext]_vars

\* Every await settles: the network answers or fails, promises resolve.
CacheFairness ==
    /\ WF_vars(\E c \in Callers, ok \in BOOLEAN : BlobFetchSettles(c, ok))
    /\ WF_vars(\E c \in Callers, ok \in BOOLEAN : BlobReadSettles(c, ok))
    /\ WF_vars(\E c \in Callers, ok \in BOOLEAN : CachingStep(c, ok))

SpecCacheFair == SpecCache /\ CacheFairness

\* The calls for this locator that are under way at this position.
C16_At(url, positions) ==
    {c \in Callers : tasks[c].url = url /\ tasks[c].pc \in positions}

C16_Call(c, url) ==
    resolve(c, url) \/ preloadToCache(c, url) \/ cacheInBackground(c, url)

\* C16: calls for one locator are coalesced.  At any time at most one
\* network fetch is in flight per locator, and at most one call works on
\* it while every other call under way waits for that one; a call made
\* while another one for the locator is under way starts no fetch, and of
\* two resolve calls made while the locator is not cached the first starts
\* one fetch and the second none.
C16_FetchesCoalesced ==
    /\ [](\A url \in Locators :
             /\ Cardinality(C16_At(url, {"fetch"})) <= 1
             /\ Cardinality(C16_At(url, {"open", "match", "fetch", "put",
                                         "blob"})) <= 1
             /\ C16_At(url, {"waiting"}) # {} =>
                    Cardinality(C16_At(url, {"fetch", "blob"})) = 1)
    /\ [][\A c \in Callers, url \in Locators :
            C16_Call(c, url) =>
                LET underWay == C16_At(url, {"waiting", "open", "match",
                                             "fetch", "put", "blob"})
                IN  /\ underWay # {} => fetchLog' = fetchLog
                    /\ (resolve(c, url) /\ underWay = {}
                            /\ url \notin blobUrlCache) =>
                           fetchLog'[url] = fetchLog[url] + 1
                    /\ \A other \in Locators \ {url} :
                           fetchLog'[other] = fetchLog[other]
         ]_vars

\* C16 witness: two resolve calls for one locator, none cached: the first
\* one fetches, the second waits for it, one fetch was started.
C16_Witness ==
    /\ draft = "blob"
    /\ ev.kind = "resolve"
    /\ blobUrlCache = {}
    /\ tasks[1] = [url |-> "/a.mp4", pc |-> "fetch", result |-> "none"]
    /\ tasks[2] = [url |-> "/a.mp4", pc |-> "waiting", result |-> "none"]
    /\ pendingCallbacks["/a.mp4"] # <<>>
    /\ fetchLog["/a.mp4"] = 1

C17_Fails(c) == BlobFetchSettles(c, FALSE) \/ BlobReadSettles(c, FALSE)

\* C17: when the fetch for a locator fails, the caller that started it and
\* every caller waiting for it get the remote locator as their result and
\* nothing is cached for the locator; no caller is left waiting for a fetch
\* that has settled, and every caller gets a result in the end.
C17_FailureDegrades ==
    /\ [][\A c \in Callers :
            C17_Fails(c) =>
                LET url == tasks[c].url
                IN  /\ tasks'[c].pc = "done"
                    /\ tasks'[c].result = url
                    /\ \A b \in Callers :
                           (tasks[b].pc = "waiting" /\ tasks[b].url = url) =>
                               (tasks'[b].pc = "done" /\ tasks'[b].result = url)
                    /\ blobUrlCache' = blobUrlCache
                    /\ url \notin blobUrlCache'
         ]_vars
    /\ [](\A b \in Callers :
             tasks[b].pc = "waiting" =>
                 \E c \in Callers : /\ tasks[c].url = tasks[b].url
                                    /\ tasks[c].pc \in {"fetch", "blob"})
    /\ \A b \in Callers :
           (tasks[b].pc \in {"waiting", "fetch", "blob"})
               ~> (tasks[b].pc = "done")

\* C17 witness: two callers resolved one locator with one fetch, which
\* failed: both have the remote locator and nothing is cached.
C17_Witness ==
    /\ draft = "blob"
    /\ ev.kind = "fetchFailed"
    /\ fetchLog["/a.mp4?v=2"] = 1
    /\ tasks[1] = [url |-> "/a.mp4?v=2", pc |-> "done",
                   result |-> "/a.mp4?v=2"]
    /\ tasks[2] = [url |-> "/a.mp4?v=2", pc |-> "done",
                   result |-> "/a.mp4?v=2"]
    /\ blobUrlCache = {}
    /\ pendingCallbacks["/a.mp4?v=2"] = <<>>

(***************************************************************************)
(* unnamed/part_005: the scroll player whose sections are VideoItems.  A   *)
(* VideoItem mounts its video element by its distance from the active      *)
(* index; the state and the elements change together when React commits.   *)
(* Pause, mute and seek are left out: they do not touch the active index.   *)
(***************************************************************************)

\* Moments in a playlist of this player.
MaxSlots == 5

\* Payloads of one to MaxSlots moments, the second one an ad.
SlotPayloads ==
    {[i \in 1..n |-> IF i = 2 THEN "ad" ELSE "video"] : n \in 1..MaxSlots}

\* hasVideo(m): m.type === "video" || m.type === "ad"
hasVideo(id) == TypeOf(id) \in {"video", "ad"}

\* Every VideoItem mounts its video element.
shouldMountVideo_Always(idx, activeIndex) == TRUE

\* diff = Math.abs(index - activeIndex); shouldMountVideo = diff < 2
shouldMountVideo(idx, activeIndex) ==
    (IF idx >= activeIndex THEN idx - activeIndex ELSE activeIndex - idx) < 2

\* The render of the sections: the indexes whose VideoItem has its video
\* element.
RenderedHandles(list, activeIndex) ==
    {i \in 0..(Len(list) - 1) :
        hasVideo(list[i + 1]) /\ shouldMountVideo(i, activeIndex)}

\* What the handlers of this player leave alone.
SlotFrame ==
    UNCHANGED <<interestVector, watchHistory, calls, rvars, ledger, ledgerRaw,
                profileRaw, failing, chvars, gvars, tvars, mvars, rdvars,
                payload,
                mobile,
                lastWatched, index, offset, isAnimating, isDragging, raf,
                wheelTimeout>>

\* The error of an effect has not taken the React tree down.
Rendering == ~thrown

\* What track("moment_start", ...) pushes (ts left out).
MomentStart(contentId, position) ==
    [event |-> "moment_start", content_id |-> contentId,
     position |-> position]

\* The track moment effect after a step, deps [currentIndex, current]: it
\* runs on mount and when the current moment changed, and returns at once
\* when there is no current moment; markSeen, then track.  markSeen's
\* setItem is outside any try block: when it throws, the effect ends there
\* and the error leaves it.
TrackView ==
    LET defined == currentIndex' >= 0 /\ currentIndex' < Len(moments')
        was == IF open /\ InRange(currentIndex)
               THEN moments[currentIndex + 1] ELSE -1
        runs == open' /\ (~open \/ currentIndex' # currentIndex
                             \/ (defined /\ moments'[currentIndex' + 1] # was))
    IN  IF runs /\ defined /\ failing # "setItem"
        THEN /\ seen' = seen \cup {moments'[currentIndex' + 1]}
             /\ dataLayer' = <<MomentStart(moments'[currentIndex' + 1],
                                           currentIndex' + 1)>>
             /\ thrown' = FALSE
        ELSE /\ seen' = seen
             /\ dataLayer' = <<>>
             /\ thrown' = (runs /\ defined)

\* Widget.openPlayer(originalIndex) and the mount of the player: the
\* observer effect runs once and keeps this render's currentIndex.
slotOpen(originalIndex) ==
    /\ Rendering
    /\ ~open
    /\ originalIndex \in 0..(Len(payload) - 1)
    /\ TypeOf(originalIndex) # "ad"
    /\ open' = TRUE
    /\ moments' = FilterSkippedAds(payload, skippedAdsInSession)
    /\ currentIndex' = originalIndex
    /\ closureIndex' = originalIndex
    /\ visible' = IF originalIndex < Len(moments') THEN originalIndex ELSE 0
    /\ reported' = -1
    /\ exiting' = FALSE
    /\ paused' = FALSE
    /\ handles' = RenderedHandles(moments', currentIndex')
    /\ ev' = EvAt("openPlayer", 0)
    /\ SlotFrame
    /\ UNCHANGED <<skippedAdsInSession, exitTimers>>
    /\ TrackView

\* The component unmounts: every element goes.
slotUnmount ==
    /\ open' = FALSE
    /\ currentIndex' = 0
    /\ closureIndex' = 0
    /\ visible' = 0
    /\ reported' = -1
    /\ exiting' = FALSE
    /\ paused' = FALSE
    /\ handles' = {}

\* exitWithAnimation: setExiting(true), onClose after 300 ms.
slotExit ==
    /\ exitTimers < MaxExitTimers
    /\ exiting' = TRUE
    /\ exitTimers' = exitTimers + 1

\* goNext: the next section is scrolled to, or the player exits.
slotNext ==
    IF currentIndex < total - 1
    THEN /\ visible' = currentIndex + 1
         /\ UNCHANGED <<exiting, exitTimers>>
    ELSE /\ slotExit
         /\ visible' = visible

\* The IntersectionObserver callback for the section now shown at half or
\* more: it becomes current unless it is the closure's currentIndex.
slotObserver ==
    /\ Rendering
    /\ open
    /\ reported # visible
    /\ reported' = visible
    /\ IF visible # closureIndex
       THEN /\ currentIndex' = visible
            /\ paused' = FALSE
       ELSE UNCHANGED <<currentIndex, paused>>
    /\ handles' = RenderedHandles(moments, currentIndex')
    /\ ev' = EvAt("handler", 0)
    /\ SlotFrame
    /\ UNCHANGED <<open, moments, closureIndex, visible, exiting, exitTimers,
                   skippedAdsInSession>>
    /\ TrackView

\* The user scrolls the container by one section.
slotScrollBy(d) ==
    /\ Rendering
    /\ open
    /\ InRange(visible + d)
    /\ visible' = visible + d
    /\ ev' = EvAt("handler", 0)
    /\ SlotFrame
    /\ UNCHANGED <<open, moments, currentIndex, closureIndex, reported,
                   exiting, exitTimers, paused, handles, skippedAdsInSession>>
    /\ TrackView

\* onKey: the arrows navigate, Escape closes.
slotKey(key) ==
    /\ Rendering
    /\ open
    /\ IF key = "ArrowDown"
       THEN /\ slotNext
            /\ UNCHANGED <<open, currentIndex, closureIndex, reported, paused,
                           handles>>
       ELSE IF key = "ArrowUp"
       THEN /\ visible' = IF currentIndex > 0 /\ InRange(currentIndex - 1)
                          THEN currentIndex - 1 ELSE visible
            /\ UNCHANGED <<open, currentIndex, closureIndex, reported, paused,
                           handles, exiting, exitTimers>>
       ELSE /\ slotUnmount
            /\ UNCHANGED exitTimers
    /\ ev' = EvAt("handler", 0)
    /\ SlotFrame
    /\ UNCHANGED <<moments, skippedAdsInSession>>
    /\ TrackView

\* handleVideoEnd(idx), fired by a mounted video element.
slotVideoEnd(idx) ==
    /\ Rendering
    /\ open
    /\ idx \in handles
    /\ IF idx = currentIndex
       THEN IF idx < total - 1
            THEN /\ visible' = idx + 1
                 /\ UNCHANGED <<exiting, exitTimers>>
            ELSE /\ slotExit
                 /\ visible' = visible
       ELSE UNCHANGED <<visible, exiting, exitTimers>>
    /\ ev' = EvAt("handler", 0)
    /\ SlotFrame
    /\ UNCHANGED <<open, moments, currentIndex, closureIndex, reported, paused,
                   handles, skippedAdsInSession>>
    /\ TrackView

\* The Skip Ad button of the active VideoItem: markAdSkipped, goNext.
slotSkipAd ==
    /\ Rendering
    /\ open
    /\ InRange(currentIndex)
    /\ TypeOf(moments[currentIndex + 1]) = "ad"
    /\ skippedAdsInSession' = skippedAdsInSession \cup {moments[currentIndex + 1]}
    /\ slotNext
    /\ ev' = EvAt("handler", 0)
    /\ SlotFrame
    /\ UNCHANGED <<open, moments, currentIndex, closureIndex, reported, paused,
                   handles>>
    /\ TrackView

\* A swipe up or a wheel turn on the last video exits.
slotSwipeOnLast ==
    /\ Rendering
    /\ open
    /\ currentIndex = total - 1
    /\ slotExit
    /\ ev' = EvAt("handler", 0)
    /\ SlotFrame
    /\ UNCHANGED <<open, moments, currentIndex, closureIndex, visible, reported,
                   paused, handles, skippedAdsInSession>>
    /\ TrackView

\* The timer of exitWithAnimation fires: onClose.
slotExitTimer ==
    /\ Rendering
    /\ exitTimers > 0
    /\ exitTimers' = exitTimers - 1
    /\ slotUnmount
    /\ ev' = EvAt("handler", 0)
    /\ SlotFrame
    /\ UNCHANGED <<moments, skippedAdsInSession>>
    /\ TrackView

SlotInit ==
    /\ interestVector = EmptyVector
    /\ watchHistory = <<>>
    /\ calls = 0
    /\ payload \in SlotPayloads
    /\ mobile = FALSE
    /\ skippedAdsInSession = {}
    /\ seen = {}
    /\ NoPlayer
    /\ NoScrollPlayer
    /\ NoRanker
    /\ ledger = <<>>
    /\ ledgerRaw = "array"
    /\ profileRaw = "profile"
    /\ failing \in {"none", "setItem"}
    /\ thrown = FALSE
    /\ NoCache
    /\ NoSlots
    /\ NoGesture
    /\ NoTurns
    /\ NoMedia
    /\ NoRenderers
    /\ ev = EvAt("init", 0)

SlotNext ==
    \/ \E originalIndex \in 0..(MaxSlots - 1) : slotOpen(originalIndex)
    \/ slotObserver
    \/ \E d \in {-1, 1} : slotScrollBy(d)
    \/ \E key \in {"ArrowDown", "ArrowUp", "Escape"} : slotKey(key)
    \/ \E idx \in 0..(MaxSlots - 1) : slotVideoEnd(idx)
    \/ slotSkipAd
    \/ slotSwipeOnLast
    \/ slotExitTimer

SpecSlots == SlotInit /\ [][SlotNext]_vars

MaxClock == 100

\* The touchmove events followed in one gesture.
MaxMoves == 2

\* window.innerHeight of the device followed.
screenH == 1000

SWIPE_THRESHOLD_RATIO == 15      \* 0.15, in hundredths
RUBBER_BAND_RESISTANCE == 35     \* 0.35, in hundredths
VELOCITY_THRESHOLD == 360        \* 0.3 px/ms
VELOCITY_WINDOW == 100           \* ms: "only consider last 100ms"
SAMPLE_LIMIT == 5                \* "keep only last 5 samples"

\* One px/ms in the unit of velocities.
VelocityUnit == 1200

\* touch.clientY where the finger lands and where touchmove reports it:
\* 200 px and 10 px above the start, and 200 px below it.
StartY == 500
Positions == {300, 490, 700}

\* The time that passes between two events or frames.
TickSteps == {20, 100}

\* The playlists followed: one moment, or three.
GesturePayloads == {<<"video">>, <<"video", "video", "video">>}

Abs(x) == IF x < 0 THEN -x ELSE x

\* getAverageVelocity's sums at time t: a sample younger than 100 ms
\* weighs 1 - age/100 (here 100 - age), an older one is left out.
RECURSIVE WeightedSum(_, _)
WeightedSum(history, t) ==
    IF history = <<>> THEN 0
    ELSE LET entry == Head(history)
             age == t - entry.t
         IN  (IF age < VELOCITY_WINDOW
              THEN entry.v * (VELOCITY_WINDOW - age) ELSE 0)
             + WeightedSum(Tail(history), t)

RECURSIVE TotalWeight(_, _)
TotalWeight(history, t) ==
    IF history = <<>> THEN 0
    ELSE LET age == t - Head(history).t
         IN  (IF age < VELOCITY_WINDOW THEN VELOCITY_WINDOW - age ELSE 0)
             + TotalWeight(Tail(history), t)

\* Math.abs(avgVelocity) > VELOCITY_THRESHOLD, avgVelocity being
\* weightedSum / totalWeight, or 0 when no sample is young enough.
velocityTriggered ==
    LET totalWeight == TotalWeight(touchState.velocityHistory, now)
    IN  /\ totalWeight > 0
        /\ Abs(WeightedSum(touchState.velocityHistory, now))
               > VELOCITY_THRESHOLD * totalWeight

\* screenH * SWIPE_THRESHOLD_RATIO, in hundredths of a pixel.
swipeThreshold == screenH * SWIPE_THRESHOLD_RATIO

\* Math.abs(offset) > swipeThreshold: offset is the state of the render
\* the handler belongs to.
distanceTriggered == Abs(offset) > swipeThreshold

\* newOffset without the resistance at the ends.
newOffset_Undamped(dy) == dy * 100

\* handleTouchMove's newOffset for the displacement dy: resisted at the
\* ends of the playlist.
newOffset(dy) ==
    IF ~hasPrev /\ dy > 0 THEN dy * RUBBER_BAND_RESISTANCE
    ELSE IF ~hasNext /\ dy < 0 THEN dy * RUBBER_BAND_RESISTANCE
    ELSE dy * 100

\* velocityHistory after push (and shift beyond five samples).
PushSample(history, entry) ==
    LET pushed == Append(history, entry)
    IN  IF Len(pushed) > SAMPLE_LIMIT THEN Tail(pushed) ELSE pushed

\* What the touch handlers leave alone.
TouchFrame ==
    UNCHANGED <<interestVector, watchHistory, calls, rvars, lsvars, chvars,
                slvars, tvars, mvars, rdvars, cvars, pagevars, open, moments,
                index,
                paused>>

\* Date.now() advances by d ms.
touchTick(d) ==
    /\ Mounted
    /\ now + d <= MaxClock
    /\ now' = now + d
    /\ TouchFrame
    /\ UNCHANGED <<touchState, offset, isAnimating, isDragging, raf,
                   wheelTimeout>>
    /\ ev' = Ev("handler", "none")

\* The frame request of a press that leaves the running animation alone.
RafAfterPress_Kept == raf

\* cancelAnimationFrame(touchState.current.rafId) and rafId: 0 in
\* handleTouchStart: no frame is requested after a press.
RafAfterPress == NoRaf

\* handleTouchStart with the finger at clientY: the running animation is
\* cancelled, touchState starts over and the offset is set to 0.  ev keeps
\* the completion of a settle the press cancelled.
touchStart(clientY) ==
    /\ Mounted
    /\ TouchFrame
    /\ touchState' = [startY |-> clientY, lastY |-> clientY,
                      lastTime |-> now, velocityHistory |-> <<>>,
                      moves |-> 0]
    /\ Gesture(TRUE, FALSE, 0, RafAfterPress, wheelTimeout)
    /\ ev' = IF raf.kind = "animate"
             THEN Ev("restart", raf.onComplete) ELSE Ev("handler", "none")
    /\ UNCHANGED now

\* handleTouchMove with the finger at clientY: a velocity sample is kept
\* when time has passed since the last event, and the new offset is left
\* to the next animation frame, which replaces the one requested before.
touchMove(clientY) ==
    /\ Mounted
    /\ isDragging
    /\ touchState.moves < MaxMoves
    /\ TouchFrame
    /\ LET dy == clientY - touchState.startY
           dt == now - touchState.lastTime
           instantVelocity ==
               (clientY - touchState.lastY) * (VelocityUnit \div dt)
       IN  /\ touchState' =
                  [touchState EXCEPT
                      !.velocityHistory =
                          IF dt > 0
                          THEN PushSample(@, [v |-> instantVelocity,
                                              t |-> now])
                          ELSE @,
                      !.lastY = clientY,
                      !.lastTime = now,
                      !.moves = @ + 1]
           /\ Gesture(isDragging, isAnimating, offset,
                      [kind |-> "setOffset", value |-> newOffset(dy),
                       onComplete |-> "none", index |-> 0],
                      wheelTimeout)
    /\ ev' = Ev("handler", "none")
    /\ UNCHANGED now

\* The animation frame requested by handleTouchMove: setOffset(newOffset).
touchFrame ==
    /\ Mounted
    /\ raf.kind = "setOffset"
    /\ TouchFrame
    /\ Gesture(isDragging, isAnimating, raf.value, NoRaf, wheelTimeout)
    /\ ev' = Ev("handler", "none")
    /\ UNCHANGED gvars

\* The onComplete handleTouchEnd hands to animateToPosition.
touchEndCallback ==
    IF offset < 0 /\ (velocityTriggered \/ distanceTriggered)
    THEN (IF hasNext THEN "goNext" ELSE "onClose")
    ELSE IF offset > 0 /\ (velocityTriggered \/ distanceTriggered)
    THEN (IF hasPrev THEN "goPrev" ELSE "none")
    ELSE "none"

\* The targetOffset handleTouchEnd hands to animateToPosition.
touchEndTarget ==
    CASE touchEndCallback = "goNext" -> -(screenH * 100)
      [] touchEndCallback = "goPrev" -> screenH * 100
      [] OTHER -> 0

\* handleTouchEnd: the frame pending from handleTouchMove is cancelled,
\* and the spring animation starts towards the moment the offset of this
\* render, the weighted velocity and the thresholds select.
touchEnd ==
    /\ Mounted
    /\ isDragging
    /\ TouchFrame
    /\ Gesture(FALSE, TRUE, offset,
               [kind |-> "animate", value |-> touchEndTarget,
                onComplete |-> touchEndCallback, index |-> index],
               wheelTimeout)
    /\ ev' = Ev("handler", "none")
    /\ UNCHANGED gvars

GestureInit ==
    /\ interestVector = EmptyVector
    /\ watchHistory = <<>>
    /\ calls = 0
    /\ NoRanker
    /\ NoStorage
    /\ NoCache
    /\ NoSlots
    /\ NoGesture
    /\ NoTurns
    /\ NoMedia
    /\ NoRenderers
    /\ payload \in GesturePayloads
    /\ mobile = TRUE
    /\ skippedAdsInSession = {}
    /\ seen = {}
    /\ NoScrollPlayer
    /\ open = TRUE
    /\ moments = Ids(payload)
    /\ index \in 0..(Len(payload) - 1)
    /\ paused = FALSE
    /\ offset = 0
    /\ isAnimating = FALSE
    /\ isDragging = FALSE
    /\ raf = NoRaf
    /\ wheelTimeout = FALSE
    /\ ev = Ev("load", "none")

GestureNext ==
    \/ \E d \in TickSteps : touchTick(d)
    \/ touchStart(StartY)
    \/ \E clientY \in Positions : touchMove(clientY)
    \/ touchFrame
    \/ touchEnd
    \/ Settle

SpecGesture == GestureInit /\ [][GestureNext]_vars

\* The net displacement of the gesture at release, in pixels: where the
\* finger was last reported minus where it landed.
NetDisplacement == touchState.lastY - touchState.startY

\* C19: a release whose net displacement is upward and larger than 15% of
\* the viewport height resolves to next when a next moment exists,
\* whatever the velocity estimate, zero included (200 px on a viewport of
\* 1000 px); a downward one of that size resolves to prev when a previous
\* moment exists.
C19_DistanceResolves ==
    [][touchEnd =>
          /\ (/\ NetDisplacement < 0
              /\ Abs(NetDisplacement) * 100 > swipeThreshold
              /\ hasNext) => raf'.onComplete = "goNext"
          /\ (/\ NetDisplacement > 0
              /\ Abs(NetDisplacement) * 100 > swipeThreshold
              /\ hasPrev) => raf'.onComplete = "goPrev"]_vars

\* The weighted velocity at release is 0.5 px/ms upward.
FlickVelocity ==
    LET totalWeight == TotalWeight(touchState.velocityHistory, now)
    IN  /\ totalWeight > 0
        /\ 2 * WeightedSum(touchState.velocityHistory, now)
               = -(VelocityUnit * totalWeight)

\* C20: a quick flick, released 10 px above its start with a weighted
\* velocity of 0.5 px/ms, resolves to next when a next moment exists,
\* whenever the display frames fall between the move events and the
\* release.
C20_FlickResolves ==
    [][(/\ touchEnd
        /\ NetDisplacement = -10
        /\ FlickVelocity
        /\ hasNext) => raf'.onComplete = "goNext"]_vars

\* The offset on screen while the finger is down and the frame of the last
\* touchmove has run: at the first moment a downward displacement, and at
\* the last moment an upward one, is shown multiplied by 0.35.
C21_Damped ==
    (open /\ isDragging /\ raf = NoRaf) =>
        /\ (~hasPrev /\ NetDisplacement > 0) =>
               offset = NetDisplacement * RUBBER_BAND_RESISTANCE
        /\ (~hasNext /\ NetDisplacement < 0) =>
               offset = NetDisplacement * RUBBER_BAND_RESISTANCE

\* C21: at index 0 no downward drag, whatever its distance and velocity,
\* takes the index below 0: its release never starts the spring towards
\* the previous moment nor hands it goPrev; and during the drag the offset
\* shown is 0.35 times the finger's displacement, as it is for an upward
\* drag at the last index.
C21_BoundaryResists ==
    /\ [](open => index >= 0)
    /\ []C21_Damped
    /\ [][(touchEnd /\ index = 0 /\ NetDisplacement > 0) =>
              /\ raf'.onComplete # "goPrev"
              /\ raf'.value <= 0
              /\ index' = 0]_vars

\* C21 witness: at index 0 the finger went 200 px down, the frame showed
\* 70 px, and the release has started the spring back to rest.
C21_Witness ==
    /\ open
    /\ index = 0
    /\ NetDisplacement = 200
    /\ offset = 7000
    /\ ~isDragging
    /\ isAnimating
    /\ raf.kind = "animate"
    /\ raf.onComplete = "none"

\* A step activates a moment: the player opens on it, or currentIndex
\* changes to it.
C22_Activated ==
    /\ open'
    /\ currentIndex' >= 0
    /\ currentIndex' < Len(moments')
    /\ (~open \/ currentIndex' # currentIndex)

\* C22: every activation of a moment, on open and after every change of
\* currentIndex, marks that moment seen and pushes exactly one moment_start
\* carrying its content_id and its position counted from 1; a step that
\* activates nothing pushes nothing, so no moment_start is pushed for a
\* moment that is not the current one.
C22_ActivationTracked ==
    /\ [][C22_Activated =>
             /\ moments'[currentIndex' + 1] \in seen'
             /\ dataLayer' = <<MomentStart(moments'[currentIndex' + 1],
                                           currentIndex' + 1)>>]_vars
    /\ [][~C22_Activated => (dataLayer' = <<>> /\ seen' = seen)]_vars
    /\ [](\A i \in DOMAIN dataLayer :
             /\ open
             /\ InRange(currentIndex)
             /\ dataLayer[i].content_id = moments[currentIndex + 1]
             /\ dataLayer[i].position = currentIndex + 1)

\* The score the mapping gives a watch fraction (in percent) that was not
\* abandoned early.
C23_Bracket(p) ==
    IF p >= 90 THEN 1000
    ELSE IF p >= 50 THEN 500
    ELSE IF p >= 20 THEN 100
    ELSE -200

\* C23: the engagement score follows the watch fraction p: +1.0 from 0.9,
\* +0.5 from 0.5, +0.1 from 0.2, -0.2 for a very short watch and -0.3 for
\* a quick abandon before 20%; and when the player reports a moment that
\* was left before 20% of it was watched, the engine is updated with the
\* quick-abandon score -0.3.
C23_QuickAbandonReported ==
    /\ [][\A p \in Percentages :
              /\ getEngagementScore(p, FALSE) = C23_Bracket(p)
              /\ p < 20 => getEngagementScore(p, TRUE) = -300]_vars
    /\ [][(/\ calls' = calls + 1
           /\ lastWatched # NoWatch
           /\ lastWatched.progress < 20
           /\ Tracks(lastWatched.index)
           /\ Len(TagsOf(moments[lastWatched.index + 1])) > 0) =>
              interestVector' =
                  UpdateWeights(interestVector,
                                TagsOf(moments[lastWatched.index + 1]),
                                -300)]_vars

(***************************************************************************)
(* The engine's profile updates on the event loop (engine.ts 24-85, as     *)
(* trackEngagement calls them).  An engagement event is one turn of the    *)
(* loop: updateUserInterest reads the stored profile, updates the weights  *)
(* and writes the profile back, then recordWatch does the same for the     *)
(* history.  Another turn starts only where the running one is suspended   *)
(* or has ended.                                                           *)
(***************************************************************************)

\* Engagement events waiting for their turn.
MaxJobs == 2

Jobs == 1..MaxJobs

\* The events followed: tags of the moment, watch fraction, content_id.
JobTags == {<<"nba">>, <<"nba", "nfl">>}
JobFractions == {10, 95}
JobIds == {0, 1}

\* The interest vectors stored before the events: none, and one with nba
\* next to the upper cap.
JobVectors == {EmptyVector, [t \in {"nba"} |-> 4970]}

\* An await between getUserProfile and saveUserProfile.
SuspendsAfterRead_Await == TRUE

\* updateUserInterest and recordWatch are synchronous from getUserProfile
\* to saveUserProfile: the turn is not suspended after the read.
SuspendsAfterRead == FALSE

\* The turn of event c can take its next step.
InTurn(c) ==
    \/ running = c
    \/ running = 0 /\ jobs[c].pc \in {"updateLoaded", "recordLoaded"}

\* What the steps of the events leave alone.
TurnFrame ==
    UNCHANGED <<calls, rvars, lsvars, chvars, slvars, gvars, mvars, rdvars,
                pagevars, pvars>>

\* The event loop takes event c from its queue: trackEngagement starts.
TurnStart(c) ==
    /\ running = 0
    /\ jobs[c].pc = "queued"
    /\ running' = c
    /\ jobs' = [jobs EXCEPT ![c].pc = "update"]
    /\ ev' = EvAt("turn", c)
    /\ TurnFrame
    /\ UNCHANGED <<interestVector, watchHistory>>

\* getUserProfile(), in updateUserInterest and in recordWatch.
TurnRead(c) ==
    /\ running = c
    /\ jobs[c].pc \in {"update", "record"}
    /\ jobs' = [jobs EXCEPT
                   ![c].pc = IF @ = "update" THEN "updateLoaded"
                             ELSE "recordLoaded",
                   ![c].interestVector = interestVector,
                   ![c].watchHistory = watchHistory]
    /\ running' = IF SuspendsAfterRead THEN 0 ELSE c
    /\ ev' = EvAt("read", c)
    /\ TurnFrame
    /\ UNCHANGED <<interestVector, watchHistory>>

\* The rest of updateUserInterest: the weights of the profile read are
\* updated and saveUserProfile writes the whole profile.
TurnSaveInterest(c) ==
    /\ InTurn(c)
    /\ jobs[c].pc = "updateLoaded"
    /\ interestVector' =
           UpdateWeights(jobs[c].interestVector, jobs[c].tags,
                         getEngagementScore(jobs[c].fraction, FALSE))
    /\ watchHistory' = jobs[c].watchHistory
    /\ jobs' = [jobs EXCEPT ![c].pc = "record"]
    /\ running' = c
    /\ ev' = EvAt("saveInterest", c)
    /\ TurnFrame

\* The rest of recordWatch: the history of the profile read is updated
\* and saveUserProfile writes the whole profile; the turn ends.
TurnSaveWatch(c) ==
    /\ InTurn(c)
    /\ jobs[c].pc = "recordLoaded"
    /\ interestVector' = jobs[c].interestVector
    /\ watchHistory' = recordWatch(jobs[c].watchHistory, jobs[c].id)
    /\ jobs' = [jobs EXCEPT ![c].pc = "done"]
    /\ running' = 0
    /\ ev' = EvAt("saveWatch", c)
    /\ TurnFrame

TurnsInit ==
    /\ interestVector \in JobVectors
    /\ watchHistory = <<>>
    /\ calls = 0
    /\ NoRanker
    /\ NoStorage
    /\ NoCache
    /\ NoSlots
    /\ NoGesture
    /\ NoMedia
    /\ NoRenderers
    /\ running = 0
    /\ jobs \in [Jobs -> [pc : {"queued"}, tags : JobTags,
                          fraction : JobFractions, id : JobIds,
                          interestVector : {EmptyVector},
                          watchHistory : {<<>>}]]
    /\ NoPage
    /\ NoPlayer
    /\ NoScrollPlayer
    /\ ev = EvAt("init", 0)

TurnsNext ==
    \E c \in Jobs :
        \/ TurnStart(c)
        \/ TurnRead(c)
        \/ TurnSaveInterest(c)
        \/ TurnSaveWatch(c)

SpecTurns == TurnsInit /\ [][TurnsNext]_vars

\* The events whose turn has ended.
C24_Done == {c \in Jobs : jobs[c].pc = "done"}

\* C24: the read-modify-write of the profile is atomic within one turn of
\* the event loop: from the read of an event to its write no other event
\* runs, every write is the update of the profile as it is stored at that
\* moment, and so, in whichever order two events recorded back-to-back
\* arrive, the stored profile reflects both: every tag of both has its
\* weight and both moments are in the history.
C24_ReadModifyWriteAtomic ==
    /\ [](\A c \in DOMAIN jobs :
             jobs[c].pc \in {"updateLoaded", "recordLoaded"} =>
                 /\ running = c
                 /\ jobs[c].interestVector = interestVector
                 /\ jobs[c].watchHistory = watchHistory)
    /\ [][\A c \in DOMAIN jobs :
             /\ TurnSaveInterest(c) =>
                    /\ interestVector' =
                           UpdateWeights(interestVector, jobs[c].tags,
                               getEngagementScore(jobs[c].fraction, FALSE))
                    /\ watchHistory' = watchHistory
             /\ TurnSaveWatch(c) =>
                    /\ watchHistory' = recordWatch(watchHistory, jobs[c].id)
                    /\ interestVector' = interestVector]_vars
    /\ [](\A c \in C24_Done :
             /\ \E i \in DOMAIN watchHistory : watchHistory[i] = jobs[c].id
             /\ \A i \in DOMAIN jobs[c].tags :
                    jobs[c].tags[i] \in DOMAIN interestVector)

\* C24 witness: both events have been recorded, the one on nba and nfl
\* after the one on nba: nba was raised twice from the stored 4.97 to the
\* cap, nfl once, and the history holds both moments, the later first.
C24_Witness ==
    /\ C24_Done = Jobs
    /\ jobs[1].tags = <<"nba">>
    /\ jobs[2].tags = <<"nba", "nfl">>
    /\ jobs[1].fraction = 95
    /\ jobs[2].fraction = 95
    /\ interestVector = [t \in {"nba", "nfl"} |->
                            IF t = "nba" THEN 5000 ELSE 650]
    /\ watchHistory = <<1, 0>>

(***************************************************************************)
(* The blob URLs of the Cache API draft of useVideoCache.ts (lines 1-196): *)
(* getFromCache, cacheInBackground, the effect of useVideoCache and        *)
(* clearVideoCache, with every blob URL told apart.  caches.open and the   *)
(* cache.match after it are one step, and so are fetch and cache.put:      *)
(* nothing the other calls share is read or written between them.          *)
(***************************************************************************)

\* The calls followed.
MaxReaders == 3

Readers == 1..MaxReaders

\* The locators asked for: a file of the page's origin and the file of
\* the same path on another origin.
BlobLocators == {"/a.mp4", "https://cdn.example/a.mp4"}

\* No blob URL: null.
NoBlobUrl == [from |-> "none", by |-> 0]

\* URL.createObjectURL(blob) in call c, of the response stored for url.
BlobUrl(url, c) == [from |-> url, by |-> c]

IdleCall == [kind |-> "none", url |-> "none", pc |-> "idle",
             result |-> NoBlobUrl]

\* blobUrlCache.forEach(revokeObjectURL) of the values, and only of them.
Revoked(urls, map) == urls \ {map[k] : k \in DOMAIN map}

\* blobUrlCache.set(cacheKey, blobUrl)
MapSet(map, key, blobUrl) ==
    [k \in DOMAIN map \cup {key} |-> IF k = key THEN blobUrl ELSE map[k]]

BlobFrame ==
    UNCHANGED <<interestVector, watchHistory, calls, rvars, lsvars, slvars,
                gvars, tvars, mvars, rdvars, pagevars, pvars, draft,
                pendingCallbacks,
                fetchLog>>

\* The call of reader c moves on.
CallAt(c, pc, result) ==
    tasks' = [tasks EXCEPT ![c].pc = pc, ![c].result = result]

\* cacheInBackground(url) up to its first await, in call c.
StartCaching(c, url) ==
    IF getCacheKey(url) \in blobUrlCache \/ url \in inProgress
    THEN /\ CallAt(c, "done", NoBlobUrl)
         /\ UNCHANGED inProgress
    ELSE /\ CallAt(c, "cmatch", NoBlobUrl)
         /\ inProgress' = inProgress \cup {url}

\* The finally block of cacheInBackground.
EndCaching(c) ==
    /\ CallAt(c, "done", NoBlobUrl)
    /\ inProgress' = inProgress \ {tasks[c].url}

\* A call starts: the effect of useVideoCache (loadVideo, which begins
\* with getFromCache), preloadToCache, or clearVideoCache, which revokes
\* the blob URLs of the map and clears it before it awaits caches.delete.
BlobCall(c, kind, url) ==
    /\ tasks[c].pc = "idle"
    /\ \A b \in Readers : b < c => tasks[b].pc # "idle"
    /\ kind = "clear" => url = "/a.mp4"
    /\ CASE kind = "resolve" ->
                /\ IF getCacheKey(url) \in blobUrlCache
                   THEN tasks' = [tasks EXCEPT ![c] =
                            [kind |-> kind, url |-> url, pc |-> "done",
                             result |-> blobUrlOf[getCacheKey(url)]]]
                   ELSE tasks' = [tasks EXCEPT ![c] =
                            [kind |-> kind, url |-> url, pc |-> "gmatch",
                             result |-> NoBlobUrl]]
                /\ UNCHANGED <<blobUrlCache, blobUrlOf, objectUrls, cacheApi,
                               inProgress>>
         [] kind = "preload" ->
                /\ IF getCacheKey(url) \in blobUrlCache \/ url \in inProgress
                   THEN /\ tasks' = [tasks EXCEPT ![c] =
                                [kind |-> kind, url |-> url, pc |-> "done",
                                 result |-> NoBlobUrl]]
                        /\ UNCHANGED inProgress
                   ELSE /\ tasks' = [tasks EXCEPT ![c] =
                                [kind |-> kind, url |-> url, pc |-> "cmatch",
                                 result |-> NoBlobUrl]]
                        /\ inProgress' = inProgress \cup {url}
                /\ UNCHANGED <<blobUrlCache, blobUrlOf, objectUrls, cacheApi>>
         [] kind = "clear" ->
                /\ objectUrls' = Revoked(objectUrls, blobUrlOf)
                /\ blobUrlOf' = <<>>
                /\ blobUrlCache' = {}
                /\ tasks' = [tasks EXCEPT ![c] =
                       [kind |-> kind, url |-> "none", pc |-> "delete",
                        result |-> NoBlobUrl]]
                /\ UNCHANGED <<cacheApi, inProgress>>
    /\ ev' = Ev(kind, "none")
    /\ BlobFrame

\* The await of call c settles, with a value (ok) or a rejection.
BlobStep(c, ok) ==
    LET url == tasks[c].url
        pc == tasks[c].pc
        key == getCacheKey(url)
    IN  /\ pc \in {"gmatch", "gblob", "cmatch", "put", "cblob", "delete"}
        /\ CASE pc = "gmatch" /\ ok /\ url \in cacheApi ->
                     \* cache.match(url) found the response
                     /\ CallAt(c, "gblob", NoBlobUrl)
                     /\ UNCHANGED <<blobUrlCache, blobUrlOf, objectUrls,
                                    cacheApi, inProgress>>
             [] pc = "gblob" /\ ok ->
                     \* response.blob(): the blob URL is made and kept
                     /\ objectUrls' = objectUrls \cup {BlobUrl(url, c)}
                     /\ blobUrlOf' = MapSet(blobUrlOf, key, BlobUrl(url, c))
                     /\ blobUrlCache' = blobUrlCache \cup {key}
                     /\ CallAt(c, "done", BlobUrl(url, c))
                     /\ UNCHANGED <<cacheApi, inProgress>>
             [] \/ pc = "gmatch" /\ ~(ok /\ url \in cacheApi)
                \/ pc = "gblob" /\ ~ok ->
                     \* getFromCache returns null: cacheInBackground
                     /\ StartCaching(c, url)
                     /\ UNCHANGED <<blobUrlCache, blobUrlOf, objectUrls,
                                    cacheApi>>
             [] pc = "cmatch" /\ ok /\ url \notin cacheApi ->
                     /\ CallAt(c, "put", NoBlobUrl)
                     /\ UNCHANGED <<blobUrlCache, blobUrlOf, objectUrls,
                                    cacheApi, inProgress>>
             [] pc = "put" /\ ok ->
                     /\ cacheApi' = cacheApi \cup {url}
                     /\ CallAt(c, "cblob", NoBlobUrl)
                     /\ UNCHANGED <<blobUrlCache, blobUrlOf, objectUrls,
                                    inProgress>>
             [] pc = "cblob" /\ ok ->
                     /\ objectUrls' = objectUrls \cup {BlobUrl(url, c)}
                     /\ blobUrlOf' = MapSet(blobUrlOf, key, BlobUrl(url, c))
                     /\ blobUrlCache' = blobUrlCache \cup {key}
                     /\ EndCaching(c)
                     /\ UNCHANGED cacheApi
             [] pc = "delete" ->
                     \* caches.delete(CACHE_NAME), or its rejection caught
                     /\ cacheApi' = IF ok THEN {} ELSE cacheApi
                     /\ CallAt(c, "done", NoBlobUrl)
                     /\ UNCHANGED <<blobUrlCache, blobUrlOf, objectUrls,
                                    inProgress>>
             [] OTHER ->
                     \* cacheInBackground: already stored, or an error
                     /\ EndCaching(c)
                     /\ UNCHANGED <<blobUrlCache, blobUrlOf, objectUrls,
                                    cacheApi>>
        /\ ev' = Ev("handler", "none")
        /\ BlobFrame

BlobsInit ==
    /\ interestVector = EmptyVector
    /\ watchHistory = <<>>
    /\ calls = 0
    /\ NoRanker
    /\ NoStorage
    /\ draft = "cacheApi"
    /\ blobUrlCache = {}
    /\ blobUrlOf = <<>>
    /\ objectUrls = {}
    /\ cacheApi \in SUBSET BlobLocators
    /\ inProgress = {}
    /\ pendingCallbacks = <<>>
    /\ tasks = [c \in Readers |-> IdleCall]
    /\ fetchLog = <<>>
    /\ NoSlots
    /\ NoGesture
    /\ NoTurns
    /\ NoMedia
    /\ NoRenderers
    /\ NoPage
    /\ NoPlayer
    /\ NoScrollPlayer
    /\ ev = Ev("init", "none")

BlobsNext ==
    \/ \E c \in Readers, url \in BlobLocators,
          kind \in {"resolve", "preload", "clear"} : BlobCall(c, kind, url)
    \/ \E c \in Readers, ok \in BOOLEAN : BlobStep(c, ok)

SpecBlobs == BlobsInit /\ [][BlobsNext]_vars

\* C25: clearVideoCache releases every local source materialized so far:
\* when it has revoked the blob URLs and cleared the map, no blob URL
\* created by an earlier resolve or preload is left unrevoked, those of
\* concurrent resolves of one locator included, and the map is empty.
C25_ClearRevokesAll ==
    [][\A c \in Readers :
          BlobCall(c, "clear", "/a.mp4") =>
              /\ objectUrls' = {}
              /\ blobUrlCache' = {}
              /\ blobUrlOf' = <<>>]_vars

\* Two locators name one media resource up to the query string: same
\* origin (scheme and host) and same path.
SameResource(a, b) ==
    /\ ParsedUrl(a).origin = ParsedUrl(b).origin
    /\ ParsedUrl(a).pathname = ParsedUrl(b).pathname

\* C26: a call never gets, for the locator it asked for, a blob URL made
\* from another media resource: the locator asked for and the one the
\* blob was read for agree in scheme, host and path.
C26_SourceOfSameResource ==
    \A c \in DOMAIN tasks :
        (tasks[c].kind = "resolve" /\ tasks[c].pc = "done"
            /\ tasks[c].result # NoBlobUrl) =>
                SameResource(tasks[c].url, tasks[c].result.from)

(***************************************************************************)
(* unnamed/part_005, VideoItem (lines 54-271): the playback of the video   *)
(* elements.  A change of currentIndex is committed section by section in  *)
(* document order, the effects of the VideoItems run when the elements are *)
(* in place, and the play() promises and the timers of playWithSound       *)
(* settle and fire in any order between the events.  An element taken out  *)
(* of the document is not followed any further.                            *)
(***************************************************************************)

\* Moments in the playlist of this player, all of them videos.
MaxItems == 4

\* playWithSound calls followed while the player is open.
MaxAttempts == 3

Sections == 0..(MaxItems - 1)

\* The video element as the render creates it: the muted attribute, no
\* autoplay, at the start of its media.
Dormant == [playing |-> FALSE, muted |-> TRUE, currentTime |-> 0]

\* The promise of a video.play() call with what its continuation closes
\* over; pause() rejects the promises that are pending.
PlayPromise(idx, attempt, targetMuted, stage) ==
    [idx |-> idx, attempt |-> attempt, targetMuted |-> targetMuted,
     stage |-> stage, aborted |-> FALSE]

\* A setTimeout callback of playWithSound with what it closes over.
Timer(kind, idx, attempt, targetMuted) ==
    [kind |-> kind, idx |-> idx, attempt |-> attempt,
     targetMuted |-> targetMuted]

\* The playWithSound calls made since the player opened.
Attempts ==
    Cardinality({c \in Sections \X (1..MaxAttempts) :
                    c[2] <= playAttemptRef[c[1]]})

\* The members of a set of sections in document order.
InOrder(S) ==
    [k \in 1..Cardinality(S) |->
        CHOOSE x \in S : Cardinality({y \in S : y < x}) = k - 1]

\* isActive of VideoItem i changed when the active index went from old to
\* currentIndex.
ActiveChanged(i, old) ==
    old # currentIndex' /\ (i = old \/ i = currentIndex')

\* The play/pause effect of VideoItem i runs: its element is mounted and
\* one of its deps isActive, muted, paused changed.
PlayEffectRuns(i, mounted, old, all) ==
    i \in mounted /\ (all \/ ActiveChanged(i, old))

\* The effect calls playWithSound(video, muted).
PlaysWithSound(i, mounted, old, all) ==
    PlayEffectRuns(i, mounted, old, all) /\ i = currentIndex' /\ ~paused'

\* The effect calls video.pause().
Pauses(i, mounted, old, all) ==
    PlayEffectRuns(i, mounted, old, all) /\ ~(i = currentIndex' /\ ~paused')

\* The sync mute effect of VideoItem i, deps [muted, isActive], sets
\* video.muted = muted.
SyncsMute(i, mounted, old, mutedChanged, interacted) ==
    /\ i \in mounted
    /\ mutedChanged \/ ActiveChanged(i, old)
    /\ i = currentIndex'
    /\ interacted

\* The effects of the VideoItems after a commit that left the elements of
\* `mounted` in `base`, old being the active index before it: the
\* play/pause effect, then the sync mute effect.
Effects(base, pending, mounted, old, all, mutedChanged, interacted) ==
    /\ media' =
           [i \in Sections |->
               [playing |-> IF Pauses(i, mounted, old, all)
                            THEN FALSE ELSE base[i].playing,
                muted |->
                    IF SyncsMute(i, mounted, old, mutedChanged, interacted)
                    THEN muted'
                    ELSE IF PlaysWithSound(i, mounted, old, all)
                            \/ (Pauses(i, mounted, old, all)
                                    /\ i # currentIndex')
                    THEN TRUE
                    ELSE base[i].muted,
                currentTime |-> IF PlaysWithSound(i, mounted, old, all)
                                THEN 0 ELSE base[i].currentTime]]
    /\ playAttemptRef' =
           [i \in Sections |->
               IF PlaysWithSound(i, mounted, old, all)
               THEN playAttemptRef[i] + 1 ELSE playAttemptRef[i]]
    /\ promises' =
           {IF Pauses(p.idx, mounted, old, all)
            THEN [p EXCEPT !.aborted = TRUE] ELSE p : p \in pending}
           \cup {PlayPromise(i, playAttemptRef[i] + 1, muted', "first") :
                    i \in {j \in Sections :
                              PlaysWithSound(j, mounted, old, all)}}

\* What the steps of this player leave alone.
PlayFrame ==
    UNCHANGED <<interestVector, watchHistory, calls, rvars, lsvars, chvars,
                gvars, tvars, rdvars, payload, mobile, skippedAdsInSession,
                index, offset, isAnimating, isDragging, raf, wheelTimeout,
                lastWatched, exiting, exitTimers>>

\* Widget.openPlayer(originalIndex) and the mount of the player: the
\* effects of the VideoItems run first, then the player's own, which call
\* markUserInteraction, markSeen and track.
playOpen(originalIndex) ==
    /\ ~open
    /\ originalIndex \in Sections
    /\ open' = TRUE
    /\ moments' = FilterSkippedAds(payload, skippedAdsInSession)
    /\ currentIndex' = originalIndex
    /\ closureIndex' = originalIndex
    /\ visible' = originalIndex
    /\ reported' = -1
    /\ paused' = FALSE
    /\ muted' = FALSE
    /\ handles' = RenderedHandles(moments', currentIndex')
    /\ Effects([i \in Sections |-> Dormant], {}, handles', -1, TRUE, TRUE,
               hasUserInteracted)
    /\ hasUserInteracted' = TRUE
    /\ seen' = seen \cup {moments'[originalIndex + 1]}
    /\ dataLayer' = <<MomentStart(moments'[originalIndex + 1],
                                  originalIndex + 1)>>
    /\ ev' = EvAt("openPlayer", originalIndex)
    /\ PlayFrame
    /\ UNCHANGED <<timers, commit>>

\* The IntersectionObserver callback for section idx, which is not the
\* currentIndex of its closure: setCurrentIndex(idx), setPaused(false).
\* React renders; the video elements to take out and to put in are left to
\* the commit.
playObserver(idx) ==
    /\ open
    /\ commit = NoCommit
    /\ InRange(idx)
    /\ idx # closureIndex
    /\ idx # currentIndex
    /\ Attempts < MaxAttempts
    /\ currentIndex' = idx
    /\ paused' = FALSE
    /\ visible' = idx
    /\ reported' = idx
    /\ commit' =
           [todo |-> InOrder((handles \ RenderedHandles(moments, idx))
                         \cup (RenderedHandles(moments, idx) \ handles)),
            from |-> currentIndex, all |-> paused]
    /\ ev' = EvAt("observer", idx)
    /\ PlayFrame
    /\ UNCHANGED <<open, moments, closureIndex, handles, seen, dataLayer,
                   muted, hasUserInteracted, media, playAttemptRef, promises,
                   timers>>

\* The commit reaches the next section whose video element changes: the
\* element is taken out of the document, or the new one is put in.
commitMutation ==
    /\ commit.todo # <<>>
    /\ LET i == Head(commit.todo)
       IN  /\ handles' = IF i \in handles
                         THEN handles \ {i} ELSE handles \cup {i}
           /\ media' = [media EXCEPT ![i] = Dormant]
           /\ promises' = {p \in promises : p.idx # i}
           /\ timers' = {t \in timers : t.idx # i}
           /\ ev' = EvAt(IF i \in handles THEN "removed" ELSE "created", i)
    /\ commit' = [commit EXCEPT !.todo = Tail(commit.todo)]
    /\ PlayFrame
    /\ UNCHANGED <<open, moments, currentIndex, closureIndex, visible,
                   reported, paused, seen, dataLayer, muted,
                   hasUserInteracted, playAttemptRef>>

\* The effects of the commit: those of the VideoItems, then the track
\* moment effect of the player.
commitEffects ==
    /\ commit # NoCommit
    /\ commit.todo = <<>>
    /\ commit' = NoCommit
    /\ UNCHANGED <<open, moments, currentIndex, closureIndex, visible,
                   reported, paused, handles, muted, hasUserInteracted,
                   timers>>
    /\ Effects(media, promises, handles, commit.from, commit.all, FALSE,
               hasUserInteracted)
    /\ seen' = seen \cup {moments[currentIndex + 1]}
    /\ dataLayer' = <<MomentStart(moments[currentIndex + 1],
                                  currentIndex + 1)>>
    /\ ev' = EvAt("effects", currentIndex)
    /\ PlayFrame

\* handleTap: markUserInteraction(), setPaused(p => !p).
handleTap ==
    /\ open
    /\ commit = NoCommit
    /\ Attempts < MaxAttempts
    /\ hasUserInteracted' = TRUE
    /\ paused' = ~paused
    /\ UNCHANGED <<open, moments, currentIndex, closureIndex, visible,
                   reported, handles, seen, muted, timers, commit>>
    /\ Effects(media, promises, handles, currentIndex, TRUE, FALSE, TRUE)
    /\ dataLayer' = <<>>
    /\ ev' = EvAt("tap", currentIndex)
    /\ PlayFrame

\* The mute button and the m key: setMuted(m => !m).
toggleMuted ==
    /\ open
    /\ commit = NoCommit
    /\ Attempts < MaxAttempts
    /\ muted' = ~muted
    /\ UNCHANGED <<open, moments, currentIndex, closureIndex, visible,
                   reported, handles, seen, paused, hasUserInteracted,
                   timers, commit>>
    /\ Effects(media, promises, handles, currentIndex, TRUE, TRUE,
               hasUserInteracted)
    /\ dataLayer' = <<>>
    /\ ev' = EvAt("mute", currentIndex)
    /\ PlayFrame

\* The promise of a play() call settles and the rest of playWithSound (or
\* of its retry callback) runs; a promise that pause() rejected does not
\* resolve.
playSettled(p, ok) ==
    /\ commit = NoCommit
    /\ p \in promises
    /\ ok => ~p.aborted
    /\ promises' = promises \ {p}
    /\ LET unmute == ~p.targetMuted /\ hasUserInteracted
       IN  /\ media' =
                  [media EXCEPT ![p.idx] =
                      [playing |-> IF ok THEN TRUE ELSE @.playing,
                       muted |-> IF ok /\ p.stage = "retry" /\ unmute
                                 THEN FALSE ELSE @.muted,
                       currentTime |-> @.currentTime]]
           /\ timers' =
                  IF p.stage = "first" /\ ok /\ unmute
                  THEN timers \cup {Timer("unmute", p.idx, p.attempt,
                                          p.targetMuted)}
                  ELSE IF p.stage = "first" /\ ~ok
                  THEN timers \cup {Timer("retry", p.idx, p.attempt,
                                          p.targetMuted)}
                  ELSE timers
    /\ dataLayer' = <<>>
    /\ ev' = EvAt(IF ok THEN "played" ELSE "rejected", p.idx)
    /\ PlayFrame
    /\ UNCHANGED <<open, moments, currentIndex, closureIndex, visible,
                   reported, paused, handles, seen, muted, hasUserInteracted,
                   playAttemptRef, commit>>

\* A timer of playWithSound fires: the delayed unmute after 100 ms, or the
\* retry after 200 ms; both test only that no later playWithSound call was
\* made for their VideoItem.
playTimer(t) ==
    /\ commit = NoCommit
    /\ t \in timers
    /\ timers' = timers \ {t}
    /\ IF t.attempt = playAttemptRef[t.idx]
       THEN IF t.kind = "unmute"
            THEN /\ media' = [media EXCEPT ![t.idx].muted = FALSE]
                 /\ promises' = promises
            ELSE /\ media' = media
                 /\ promises' = promises \cup
                        {PlayPromise(t.idx, t.attempt, t.targetMuted,
                                     "retry")}
       ELSE UNCHANGED <<media, promises>>
    /\ dataLayer' = <<>>
    /\ ev' = [kind |-> t.kind, advance |-> "none", idx |-> t.idx]
    /\ PlayFrame
    /\ UNCHANGED <<open, moments, currentIndex, closureIndex, visible,
                   reported, paused, handles, seen, muted, hasUserInteracted,
                   playAttemptRef, commit>>

\* Escape: onClose, the player unmounts and every element goes.  The
\* module-level hasUserInteracted stays.
playClose ==
    /\ open
    /\ commit = NoCommit
    /\ slotUnmount
    /\ moments' = <<>>
    /\ muted' = FALSE
    /\ media' = [i \in Sections |-> Dormant]
    /\ playAttemptRef' = [i \in Sections |-> 0]
    /\ promises' = {}
    /\ timers' = {}
    /\ dataLayer' = <<>>
    /\ ev' = EvAt("close", 0)
    /\ PlayFrame
    /\ UNCHANGED <<seen, hasUserInteracted, commit>>

PlayInit ==
    /\ interestVector = EmptyVector
    /\ watchHistory = <<>>
    /\ calls = 0
    /\ NoRanker
    /\ NoStorage
    /\ NoCache
    /\ NoSlots
    /\ NoGesture
    /\ NoTurns
    /\ muted = FALSE
    /\ hasUserInteracted = FALSE
    /\ media = [i \in Sections |-> Dormant]
    /\ playAttemptRef = [i \in Sections |-> 0]
    /\ promises = {}
    /\ timers = {}
    /\ commit = NoCommit
    /\ NoRenderers
    /\ payload = [i \in 1..MaxItems |-> "video"]
    /\ mobile = FALSE
    /\ skippedAdsInSession = {}
    /\ seen = {}
    /\ NoPlayer
    /\ NoScrollPlayer
    /\ ev = EvAt("init", 0)

PlayNext ==
    \/ \E originalIndex \in Sections : playOpen(originalIndex)
    \/ \E idx \in Sections : playObserver(idx)
    \/ commitMutation
    \/ commitEffects
    \/ handleTap
    \/ toggleMuted
    \/ \E p \in promises, ok \in BOOLEAN : playSettled(p, ok)
    \/ \E t \in timers : playTimer(t)
    \/ playClose

SpecPlay == PlayInit /\ [][PlayNext]_vars

\* Steps of playback followed on one element.
MaxTime == 2

\* The media of a playing element moves on; the timeupdate listener of the
\* active VideoItem reads video.currentTime.
timeUpdate(i) ==
    /\ open
    /\ commit = NoCommit
    /\ i \in handles
    /\ media[i].playing
    /\ media[i].currentTime < MaxTime
    /\ media' = [media EXCEPT ![i].currentTime = @ + 1]
    /\ dataLayer' = <<>>
    /\ ev' = EvAt("timeupdate", i)
    /\ PlayFrame
    /\ UNCHANGED <<open, moments, currentIndex, closureIndex, visible,
                   reported, paused, handles, seen, muted, hasUserInteracted,
                   playAttemptRef, promises, timers, commit>>

\* The player stays on the moment it was opened on while the user pauses,
\* resumes and mutes.
ToggleNext ==
    \/ \E originalIndex \in Sections : playOpen(originalIndex)
    \/ handleTap
    \/ toggleMuted
    \/ \E p \in promises, ok \in BOOLEAN : playSettled(p, ok)
    \/ \E t \in timers : playTimer(t)
    \/ \E i \in Sections : timeUpdate(i)

SpecToggle == PlayInit /\ [][ToggleNext]_vars

(***************************************************************************)
(* Claims about the playback of the video elements                         *)
(***************************************************************************)

\* C27: whenever currentIndex changes, every video element that leaves the
\* live window is taken down before any element that enters it is created,
\* so that never more than three elements are mounted, not even inside a
\* commit.
C27_TeardownBeforeCreation ==
    /\ [](Cardinality(handles) <= 3)
    /\ [][(commitMutation /\ handles' \ handles # {}) =>
              handles \subseteq RenderedHandles(moments, currentIndex)]_vars

\* C28: a step that starts a play attempt for a moment leaves its element
\* muted; an element goes from muted to unmuted only when a play attempt
\* on it has succeeded, the wanted mute state is unmuted and the user has
\* interacted; a rejected play is retried once, and when the retry is
\* rejected as well the element is left muted and not playing.
C28_MutedUntilPlaying ==
    [][\A i \in Sections :
          /\ playAttemptRef'[i] > playAttemptRef[i] => media'[i].muted
          /\ (media[i].muted /\ ~media'[i].muted) =>
                 /\ media'[i].playing
                 /\ ~muted'
                 /\ hasUserInteracted'
          /\ \A p \in promises :
                 (p.idx = i /\ playSettled(p, FALSE)) =>
                     IF p.stage = "first"
                     THEN timers' \ timers =
                              {Timer("retry", i, p.attempt, p.targetMuted)}
                     ELSE /\ timers' = timers
                          /\ media'[i] = media[i]
                          /\ p.attempt = playAttemptRef[i] =>
                                 media'[i] = Dormant]_vars

\* C29: a retry timer or a delayed-unmute timer that fires after its moment
\* was deactivated does nothing: it neither calls play on the element nor
\* unmutes it.
C29_SupersededTimerIdle ==
    [][\A t \in timers :
          (playTimer(t) /\ t.idx # currentIndex) =>
              /\ media' = media
              /\ promises' = promises]_vars

\* C30: between the commits, at most one video element is playing and it
\* is that of currentIndex; an element of another index is neither playing
\* nor unmuted, whatever the order of navigation, promises and timers.
C30_OnlyCurrentPlays ==
    (open /\ commit = NoCommit) =>
        \A i \in handles :
            i # currentIndex => (~media[i].playing /\ media[i].muted)

\* C31: the mute toggle and the pause toggle only flip their flag: toggling
\* mute leaves currentIndex, paused and the playback position of the active
\* element as they were, pausing and resuming leaves that position where it
\* was, and neither changes the element of a neighbour.
C31_TogglesOnlyFlip ==
    [][(toggleMuted \/ handleTap) =>
          /\ currentIndex' = currentIndex
          /\ toggleMuted => (paused' = paused /\ muted' = ~muted)
          /\ handleTap => (muted' = muted /\ paused' = ~paused)
          /\ media'[currentIndex].currentTime =
                 media[currentIndex].currentTime
          /\ \A i \in handles \ {currentIndex} : media'[i] = media[i]]_vars

\* C32: at the last index a release that meets the next rule (net
\* displacement upward, with the weighted velocity above the velocity
\* threshold or the displacement above 15% of the viewport height) resolves
\* to close: the spring returns to 0 and onClose runs when it has settled.
C32_NextAtLastCloses ==
    [][(/\ touchEnd
        /\ ~hasNext
        /\ NetDisplacement < 0
        /\ \/ velocityTriggered
           \/ Abs(NetDisplacement) * 100 > swipeThreshold) =>
              /\ raf'.onComplete = "onClose"
              /\ raf'.value = 0]_vars

\* C33: a press that begins while a settle animation is in flight cancels
\* it at once: the press leaves no frame requested, the offset at 0 and
\* isAnimating cleared, and while the finger is down no frame of a settle
\* runs, so that the completion decided at the earlier release (goNext,
\* goPrev or onClose) changes neither the index nor open.
C33_RestartCancelsSettle ==
    /\ [](isDragging => raf.kind # "animate")
    /\ [][(touchStart(StartY) /\ raf.kind = "animate") =>
              /\ raf' = NoRaf
              /\ ~isAnimating'
              /\ offset' = 0
              /\ index' = index
              /\ open' = open]_vars
    /\ [][Settle => ~isDragging]_vars

\* C33 witness: a release had started the spring towards the next moment,
\* and a new press has cancelled it: the finger is down, no frame is
\* requested and the player is still on the moment it was on.
C33_Witness ==
    /\ ev = Ev("restart", "goNext")
    /\ open
    /\ isDragging
    /\ ~isAnimating
    /\ raf = NoRaf
    /\ offset = 0
    /\ index = 0

\* C34: wheel input is debounced: a wheel event acts only while no wheel
\* timer is pending; one beyond the noise threshold (|deltaY| > 20) moves
\* the index by at most 1 and leaves the timer set while the player stays
\* open, so that no further wheel event navigates before the timer has
\* fired; one at or below the threshold changes neither the index nor open
\* and sets no timer.
C34_WheelDebounced ==
    [][\A deltaY \in WheelDeltas :
          handleWheel(deltaY) =>
              /\ ~wheelTimeout
              /\ (deltaY > 20 \/ deltaY < -20) =>
                     /\ index' - index \in {-1, 0, 1}
                     /\ open' => wheelTimeout'
              /\ (deltaY <= 20 /\ deltaY >= -20) =>
                     /\ index' = index
                     /\ open' = open
                     /\ ~wheelTimeout']_vars

\* C34 witness: a wheel event has moved the player to the second moment and
\* its timer is still pending.
C34_Witness ==
    /\ open
    /\ ev = Ev("handler", "next")
    /\ wheelTimeout
    /\ ~isDragging
    /\ raf = NoRaf
    /\ index = 1

\* C35: whenever the observer has reported the section the container shows
\* at half or more, that section is the active one: currentIndex equals
\* the index of the slot shown, for every slot and at any time, the slot
\* the player was opened on included.
C35_ShownIsActive ==
    (open /\ Rendering /\ reported = visible) => currentIndex = visible

(***************************************************************************)
(* The swipe player (VerticalPlayer.tsx lines 1-611) driven forward only:  *)
(* a session that is open on a valid index and receives next requests by   *)
(* swipe, key, arrow button, wheel and media end until it closes.          *)
(***************************************************************************)

AdvanceInit ==
    /\ interestVector = EmptyVector
    /\ watchHistory = <<>>
    /\ calls = 0
    /\ payload \in Payloads
    /\ mobile \in BOOLEAN
    /\ skippedAdsInSession = {}
    /\ open = TRUE
    /\ moments = Ids(payload)
    /\ index \in 0..(Len(payload) - 1)
    /\ seen = {index}
    /\ paused = FALSE
    /\ offset = 0
    /\ isAnimating = FALSE
    /\ isDragging = FALSE
    /\ raf = NoRaf
    /\ wheelTimeout = FALSE
    /\ NoScrollPlayer
    /\ OthersIdle
    /\ ev = Ev("openPlayer", "none")

AdvanceNext ==
    \/ handleTouchStart
    \/ handleTouchMove(-1)
    \/ OffsetFrame
    \/ handleTouchEnd(TRUE)
    \/ Settle
    \/ onKey("ArrowDown")
    \/ handleWheel(100)
    \/ WheelTimeoutFires
    \/ onEnded
    \/ ArrowNext

SpecAdvance == AdvanceInit /\ [][AdvanceNext]_vars /\ WF_vars(AdvanceNext)

\* C36: from any valid index k of a playlist of N moments, next requests
\* alone never lower the index and never take it past the last moment; the
\* request made on the last moment closes the player, which is the
\* (N - k)th one; and the session reaches Closed.
C36_AdvanceReachesClosed ==
    /\ [][index' >= index]_vars
    /\ [](open => index < Len(moments))
    /\ [][(open /\ ev'.advance = "next" /\ index >= Len(moments) - 1) =>
              (~open' /\ index' = index)]_vars
    /\ <>(~open)

\* C37: onClose is invoked at most once in a player session: every
\* invocation, by Escape or by the timer of exitWithAnimation, finds the
\* session open and ends it, whatever close triggers arrive, those during
\* the 300 ms of the exit animation included.
C37_ClosedOnce ==
    [][(slotExitTimer \/ slotKey("Escape")) => (open /\ ~open')]_vars

\* C38: opening the player from the card of a moment activates that
\* moment: right after the open the index is valid and the moment at it has
\* the content_id of the card, also when ads skipped earlier in the page
\* session are left out of the effective playlist.
C38_OpensClickedCard ==
    [][\A originalIndex \in 0..(MaxMoments - 1) :
          openPlayer(originalIndex) =>
              /\ index' < Len(moments')
              /\ moments'[index' + 1] = originalIndex]_vars

(***************************************************************************)
(* player/renderers/VideoRenderer.tsx: one mounted VideoRenderer whose     *)
(* parent changes its active and paused props.  attemptPlay is the         *)
(* function of the render whose effect started it: the timers it arms call *)
(* that same function, with that render's active and paused.               *)
(***************************************************************************)

\* attemptPlay calls followed on the counter.
MaxPlayAttempts == 7

\* play() calls and retry timers pending at once.
MaxPending == 2

\* playAttempts.current < 5
RETRY_LIMIT == 5

\* Room for one more attemptPlay within the bounds.
CanAttempt(r) ==
    /\ r.playAttempts < MaxPlayAttempts
    /\ r.inflight + r.retries < MaxPending

\* What the steps of the renderers leave alone.
RendererFrame ==
    UNCHANGED <<interestVector, watchHistory, calls, rvars, lsvars, chvars,
                slvars, gvars, tvars, mvars, pagevars, pvars>>

\* attemptPlay of a render with these active and paused: it returns at
\* once when that render was not active or was paused, else it counts the
\* attempt and calls video.play().
attemptPlay(r, closureActive, closurePaused) ==
    IF ~closureActive \/ closurePaused
    THEN r
    ELSE [r EXCEPT !.playAttempts = @ + 1, !.inflight = @ + 1]

\* The cleanup of the play/pause effect, which the not-ready branch
\* returns: the canplaythrough listener and the 300 ms timeout go.
effectCleanup(r) == [r EXCEPT !.listener = FALSE, !.timeout = FALSE]

\* The play/pause effect, deps [active, paused, moment.src], after the
\* props became active and not paused; ready: video.readyState >= 3.
vrPlay(ready) ==
    /\ videoRenderer # <<>>
    /\ ~(videoRenderer.active /\ ~videoRenderer.paused)
    /\ ready => CanAttempt(videoRenderer)
    /\ LET r == [effectCleanup(videoRenderer) EXCEPT
                     !.active = TRUE, !.paused = FALSE, !.playAttempts = 0]
       IN  videoRenderer' =
               IF ready
               THEN attemptPlay(r, TRUE, FALSE)
               ELSE [r EXCEPT !.listener = TRUE, !.timeout = TRUE]
    /\ ev' = EvAt("play", 0)
    /\ RendererFrame
    /\ UNCHANGED youTube

\* The props become inactive, or paused: cleanup, then video.pause().
vrStop(nowActive, nowPaused) ==
    /\ videoRenderer # <<>>
    /\ ~(nowActive /\ ~nowPaused)
    /\ <<nowActive, nowPaused>> #
           <<videoRenderer.active, videoRenderer.paused>>
    /\ videoRenderer' = [effectCleanup(videoRenderer) EXCEPT
                             !.active = nowActive, !.paused = nowPaused,
                             !.playing = FALSE]
    /\ ev' = EvAt("stop", 0)
    /\ RendererFrame
    /\ UNCHANGED youTube

\* canplaythrough fires: onCanPlay calls attemptPlay and removes itself;
\* the timeout stays armed.
vrCanPlayThrough ==
    /\ videoRenderer # <<>>
    /\ videoRenderer.listener
    /\ CanAttempt(videoRenderer)
    /\ videoRenderer' =
           attemptPlay([videoRenderer EXCEPT !.listener = FALSE],
                       TRUE, FALSE)
    /\ ev' = EvAt("canplaythrough", 0)
    /\ RendererFrame
    /\ UNCHANGED youTube

\* The 300 ms timeout fires: attemptPlay when video.readyState >= 2.
vrTimeout(ready) ==
    /\ videoRenderer # <<>>
    /\ videoRenderer.timeout
    /\ ready => CanAttempt(videoRenderer)
    /\ videoRenderer' =
           IF ready
           THEN attemptPlay([videoRenderer EXCEPT !.timeout = FALSE],
                            TRUE, FALSE)
           ELSE [videoRenderer EXCEPT !.timeout = FALSE]
    /\ ev' = EvAt("timeout", 0)
    /\ RendererFrame
    /\ UNCHANGED youTube

\* The play() calls of one attemptPlay settle: played, or every one of
\* them rejected, and then the retry timer is armed while the counter is
\* below the limit.
vrSettled(ok) ==
    /\ videoRenderer # <<>>
    /\ videoRenderer.inflight > 0
    /\ videoRenderer' =
           IF ok
           THEN [videoRenderer EXCEPT !.inflight = @ - 1, !.playing = TRUE]
           ELSE IF videoRenderer.playAttempts < RETRY_LIMIT
           THEN [videoRenderer EXCEPT !.inflight = @ - 1, !.retries = @ + 1]
           ELSE [videoRenderer EXCEPT !.inflight = @ - 1]
    /\ ev' = EvAt(IF ok THEN "played" ELSE "rejected", 0)
    /\ RendererFrame
    /\ UNCHANGED youTube

\* A retry timer fires after 100 ms: setTimeout(attemptPlay, 100) calls
\* the attemptPlay that armed it.
vrRetry ==
    /\ videoRenderer # <<>>
    /\ videoRenderer.retries > 0
    /\ videoRenderer.playAttempts < MaxPlayAttempts
    /\ videoRenderer' =
           attemptPlay([videoRenderer EXCEPT !.retries = @ - 1], TRUE, FALSE)
    /\ ev' = EvAt("retry", 0)
    /\ RendererFrame
    /\ UNCHANGED youTube

RetryInit ==
    /\ interestVector = EmptyVector
    /\ watchHistory = <<>>
    /\ calls = 0
    /\ NoRanker
    /\ NoStorage
    /\ NoCache
    /\ NoSlots
    /\ NoGesture
    /\ NoTurns
    /\ NoMedia
    /\ videoRenderer = [active |-> FALSE, paused |-> FALSE,
                        playAttempts |-> 0, inflight |-> 0, retries |-> 0,
                        listener |-> FALSE, timeout |-> FALSE,
                        playing |-> FALSE]
    /\ youTube = <<>>
    /\ NoPage
    /\ NoPlayer
    /\ NoScrollPlayer
    /\ ev = EvAt("init", 0)

RetryNext ==
    \/ \E ready \in BOOLEAN : vrPlay(ready)
    \/ \E nowActive, nowPaused \in BOOLEAN : vrStop(nowActive, nowPaused)
    \/ vrCanPlayThrough
    \/ \E ready \in BOOLEAN : vrTimeout(ready)
    \/ \E ok \in BOOLEAN : vrSettled(ok)
    \/ vrRetry

SpecRetry == RetryInit /\ [][RetryNext]_vars

\* C39: play is not retried without end: since the moment was activated,
\* at most 5 play attempts have been made, those of the ready-event chain
\* and of the fallback-timeout chain together, and a retry timer that fires
\* once the moment is deactivated or paused makes no attempt.
C39_BoundedRetries ==
    /\ [](videoRenderer.playAttempts <= RETRY_LIMIT)
    /\ [][(vrRetry /\ (~videoRenderer.active \/ videoRenderer.paused)) =>
              /\ videoRenderer'.playAttempts = videoRenderer.playAttempts
              /\ videoRenderer'.inflight = videoRenderer.inflight]_vars

(***************************************************************************)
(* part_007 YouTubeRenderer: the renderers of the hosted clips of one      *)
(* page.  Every mounted renderer listens on the same window; the iframe of *)
(* a renderer reloads when its src changes, and autoplay in the src is     *)
(* active && !paused.                                                      *)
(***************************************************************************)

\* Hosted clips of the page, one renderer each.
MaxClips == 3

\* Playback positions of a clip; the clip ends at the last one.
MaxPosition == 2

Clips == 1 .. MaxClips

\* handleMessage of every mounted renderer for one message of origin
\* https://www.youtube.com carrying onStateChange with info 0: a renderer
\* whose hasEndedRef is unset sets it and calls onEnded.  Neither
\* event.source nor active is looked at.
handleMessage(y) ==
    [y EXCEPT
        !.called = {r \in y.mounted : ~y.hasEndedRef[r]},
        !.hasEndedRef = [r \in Clips |-> y.hasEndedRef[r] \/ r \in y.mounted]]

\* The active clip plays on, short of its end.
ytPlays ==
    /\ youTube # <<>>
    /\ ~youTube.paused
    /\ youTube.position + 1 < MaxPosition
    /\ youTube' = [youTube EXCEPT !.position = @ + 1, !.called = {}]
    /\ ev' = EvAt("plays", youTube.active)
    /\ RendererFrame
    /\ UNCHANGED videoRenderer

\* The active clip plays to its end: its iframe posts playerState 0 to
\* the window.
ytEnds ==
    /\ youTube # <<>>
    /\ ~youTube.paused
    /\ youTube.position + 1 = MaxPosition
    /\ youTube' = handleMessage([youTube EXCEPT !.position = MaxPosition])
    /\ ev' = EvAt("ends", youTube.active)
    /\ RendererFrame
    /\ UNCHANGED videoRenderer

\* The user navigates to clip c: active changes for two renderers, their
\* src changes and the iframes reload; the renderers stay as they are.
ytNavigate(c) ==
    /\ youTube # <<>>
    /\ c # youTube.active
    /\ youTube' = [youTube EXCEPT !.active = c, !.position = 0,
                                  !.mounted = @ \cup {c}, !.called = {},
                                  !.hasEndedRef[c] =
                                      IF c \in youTube.mounted THEN @
                                      ELSE FALSE]
    /\ ev' = EvAt("navigate", c)
    /\ RendererFrame
    /\ UNCHANGED videoRenderer

\* The host unmounts the renderer of a clip that is not active; a later
\* mount starts with hasEndedRef unset.
ytUnmount(c) ==
    /\ youTube # <<>>
    /\ c # youTube.active
    /\ c \in youTube.mounted
    /\ youTube' = [youTube EXCEPT !.mounted = @ \ {c}, !.called = {}]
    /\ ev' = EvAt("unmount", c)
    /\ RendererFrame
    /\ UNCHANGED videoRenderer

\* paused changes: the src of the active renderer changes and its iframe
\* reloads.
ytTogglePaused ==
    /\ youTube # <<>>
    /\ youTube' = [youTube EXCEPT !.paused = ~@, !.position = 0,
                                  !.called = {}]
    /\ ev' = EvAt("paused", youTube.active)
    /\ RendererFrame
    /\ UNCHANGED videoRenderer

HostedInit ==
    /\ interestVector = EmptyVector
    /\ watchHistory = <<>>
    /\ calls = 0
    /\ NoRanker
    /\ NoStorage
    /\ NoCache
    /\ NoSlots
    /\ NoGesture
    /\ NoTurns
    /\ NoMedia
    /\ videoRenderer = <<>>
    /\ \E c \in Clips :
           youTube = [active |-> c, paused |-> FALSE, position |-> 0,
                      mounted |-> Clips,
                      hasEndedRef |-> [r \in Clips |-> FALSE],
                      called |-> {}]
    /\ NoPage
    /\ NoPlayer
    /\ NoScrollPlayer
    /\ ev = EvAt("init", 0)

HostedNext ==
    \/ ytPlays
    \/ ytEnds
    \/ \E c \in Clips : ytNavigate(c)
    \/ \E c \in Clips : ytUnmount(c)
    \/ ytTogglePaused

SpecHosted == HostedInit /\ [][HostedNext]_vars

\* C40: each time the active clip plays to its end, ended is delivered
\* exactly once, by the renderer of that clip, also after the user
\* navigated away and came back to it; no renderer reports ended because
\* another clip ended.
C40_EndedOncePerPlay ==
    [][ytEnds => youTube'.called = {youTube.active}]_vars

====
